---- MODULE Spec2Model ----
(***************************************************************************)
(* Dialogue session core of the AI customer call handler: the call session *)
(* registry (call_state.py), the phase machine driven by the response      *)
(* generator (ai_response_generator.py), the step-by-step reservation flow *)
(* (simple_reservation_handler.py) and the webhook handlers (app.py,       *)
(* twilio_handler.py).                                                     *)
(*                                                                         *)
(* Spec     : every handler runs to completion, one at a time.             *)
(* ConcSpec : two worker threads run handlers for one call id, one         *)
(*            statement group at a time, sharing the registry lock.        *)
(* RegSpec  : the registry methods on two call ids, with the clock         *)
(*            running and the periodic sweep.                              *)
(* InitSpec : initialize_call statement by statement, run by two threads.  *)
(* ParseSpec: detect_intent, the parsers of fallback_extraction.py and of  *)
(*            the step flow, applied to utterances, sessions and clock     *)
(*            readings drawn from bounded sets.                            *)
(* AppSpec  : the routes of app.py, each on the registry instance it uses. *)
(* LockSpec : the registry methods in two threads, with the taking and     *)
(*            the giving back of the lock; LockFairSpec adds fairness.     *)
(* CoreSpec : the registry methods and generate_next_response alone.       *)
(*                                                                         *)
(* The state holds the fields the phase machine, the flows, the sweep and  *)
(* the statistics read and write.  The clock advances only in RegSpec.  An *)
(* utterance is the string of its characters, and the parsers work on the  *)
(* characters as the substring tests and regular expressions of the code   *)
(* do.  An operation is recognised in a property by its action formula     *)
(* (for example UpdateCallStatus(c, "failed", d)); the property then       *)
(* states the outcome in terms of the session before and after the step.   *)
(* A method that changes nothing is checked through the function that      *)
(* models it.                                                              *)
(***************************************************************************)
EXTENDS Integers, Sequences, FiniteSets, TLC

VARIABLES
    calls,      \* CallStateManager.calls: call id -> CallState (a partial map)
    saves,      \* call id -> number of persistence requests issued for it
    reservations,   \* ReservationDatabase: call id -> rows its events have stored
    lock,       \* CallStateManager.lock: the thread holding it, or NoThread
    pc,         \* thread -> the statement group it is about to run
    loc,        \* thread -> its local variables
    handled,    \* ConcSpec: process_customer_response calls that have returned
    now,        \* time.time(), in whole seconds
    made,       \* InitSpec: call id -> CallState objects constructed for it
    stream_calls    \* AudioStreamProcessor.call_state_manager.calls

vars == <<calls, saves, reservations, lock, pc, loc, handled, now, made, stream_calls>>

-----------------------------------------------------------------------------
(* Bounds and input alphabets                                              *)

MaxHistory == 2     \* longest transcription / conversation history kept
MaxSaves == 2       \* persistence requests counted per call id
MaxAnswers == 3     \* ConcSpec: step-by-step answers handled
MaxClock == 2       \* RegSpec: seconds the clock runs for

CallIds == {"CA1", "CA2"}
SpecCallIds == {"CA1"}     \* the call ids the handlers of Spec are run for
Numbers == {"+44"}
None == "None"

\* CallState.extracted_info keys, in the dict's insertion order
Slots == <<"name", "date", "time", "party_size", "phone", "email">>
SlotNames == {Slots[i] : i \in 1..Len(Slots)}

Phases == {"greeting", "gathering", "confirming", "completed", "early_disconnected"}
Statuses == {"active", "completed", "failed", "early_disconnected"}
TerminalStatuses == {"completed", "failed", "early_disconnected"}

\* CallStatus values Twilio posts to /voice/status
StatusEvents == {"completed", "failed", "ringing"}
Durations == {"", "42"}
Digits == {"", "1", "2", "5"}
ConfirmSpeech == {"", "yes", "no", "hello"}
Utterances == {"", "book a table", "Kim"}
ConcUtterances == {"book a table", "Kim"}
Transcriptions == {"", "hello"}

\* ParseSpec: the utterances the parsers and detect_intent are applied to
ParseTexts ==
    { "", "hello", "Kim",
      "my name is Kim Cheolsu", "My name is John", "uh, I'm Sarah", "call me Al.",
      "I am Kim, please", "name is Lee", "my name is john 5", "um my name is Bo Li Chen",
      "7pm", "12am", "12pm", "7:30 pm", "7:75", "7 p.m.", "7 p.m", "7pm.", "9 a.m",
      "at 5", "at 9", "5 o'clock", "seven", "1930",
      "morning", "in the afternoon at 2", "tomorrow evening", "tonight at 8",
      "lunch", "dinner at 8", "breakfast", "morning or night",
      "today", "tomorrow at 7pm", "monday", "next monday", "next friday", "sunday",
      "march 5", "friday march 5", "not today, tomorrow", "tomorrow, friday march 5",
      "feb 30", "september 31", "sep 5", "december 25", "on the 5th",
      "that's all", "no thanks, book a table", "my name is Kim, that's it",
      "book a table", "what are your hours", "2 people", "k@x.io", "phone 555",
      "what time can I book", "when is the special", "halal menu", "halal or vegetarian",
      "vegan, and parking", "where can I park", "address and contact", "price of a call",
      "how much", "great", "7", "7:30", "5551234" }

\* dicts handed to update_extracted_info
InfoInputs ==
    { [k \in {"name"} |-> "Kim"],
      [k \in {"date", "time"} |-> IF k = "date" THEN "TOMORROW" ELSE "15:00"],
      [k \in {"party_size", "phone", "email"} |->
          IF k = "party_size" THEN "2" ELSE IF k = "phone" THEN "555" ELSE "k@x.io"],
      [k \in {"name", "date"} |-> IF k = "name" THEN None ELSE ""],
      << >> }

-----------------------------------------------------------------------------
(* CallState                                                               *)

NewReservationSession == [step |-> 1, name |-> None, date |-> None, time |-> None]

\* CallState.__init__
NewCallState(from_number) ==
    [ from_number |-> from_number,
      start_time |-> now,
      last_update |-> now,
      call_duration |-> 0,
      transcription_history |-> << >>,
      extracted_info |-> [k \in SlotNames |-> None],
      confirmation_pending |-> FALSE,
      call_phase |-> "greeting",
      status |-> "active",
      greeting_played |-> FALSE,
      intent |-> None,
      last_intent |-> None,
      conversation_history |-> << >>,
      reservation_session |-> << >> ]   \* << >>: the attribute is not there

\* update_transcription keeping only the newest transcription
update_transcription_replacing(cs, transcription) ==
    IF transcription # ""
    THEN [cs EXCEPT !.transcription_history = <<transcription>>, !.last_update = now]
    ELSE cs

\* CallState.update_transcription
update_transcription(cs, transcription) ==
    IF transcription # ""
    THEN [cs EXCEPT !.transcription_history = Append(@, transcription),
                    !.last_update = now]
    ELSE cs

\* update_extracted_info storing every value of new_info, None and "" too
update_extracted_info_unfiltered(cs, new_info) ==
    IF DOMAIN new_info = {} THEN cs
    ELSE [cs EXCEPT !.extracted_info =
             [k \in SlotNames |-> IF k \in DOMAIN new_info THEN new_info[k] ELSE @[k]],
                    !.last_update = now]

\* CallState.update_extracted_info
update_extracted_info(cs, new_info) ==
    IF DOMAIN new_info = {} THEN cs
    ELSE [cs EXCEPT !.extracted_info =
             [k \in SlotNames |->
                 IF k \in DOMAIN new_info /\ new_info[k] # None /\ new_info[k] # ""
                 THEN new_info[k] ELSE @[k]],
                    !.last_update = now]

\* has_missing_info looking only at the slots a reservation is saved with
has_missing_info_of_saved_slots(cs) ==
    \E k \in {"name", "date", "time"} : cs.extracted_info[k] = None

has_missing_info(cs) == \E k \in SlotNames : cs.extracted_info[k] = None

has_complete_info(cs) == \A k \in SlotNames : cs.extracted_info[k] # None

\* the missing fields listed from the last key of the dict to the first
RECURSIVE MissingFrom_reversed(_, _)
MissingFrom_reversed(cs, i) ==
    IF i > Len(Slots) THEN << >>
    ELSE IF cs.extracted_info[Slots[i]] = None
         THEN MissingFrom_reversed(cs, i + 1) \o <<Slots[i]>>
         ELSE MissingFrom_reversed(cs, i + 1)

RECURSIVE MissingFrom(_, _)
MissingFrom(cs, i) ==
    IF i > Len(Slots) THEN << >>
    ELSE IF cs.extracted_info[Slots[i]] = None
         THEN <<Slots[i]>> \o MissingFrom(cs, i + 1)
         ELSE MissingFrom(cs, i + 1)

get_missing_fields(cs) == MissingFrom(cs, 1)

\* set_confirmation_pending writing the flag and leaving the phase
set_confirmation_pending_flag_only(cs, pending) ==
    [cs EXCEPT !.confirmation_pending = pending, !.last_update = now]

set_confirmation_pending(cs, pending) ==
    [cs EXCEPT !.confirmation_pending = pending,
               !.call_phase = IF pending THEN "confirming" ELSE "gathering",
               !.last_update = now]

complete_call(cs) ==
    [cs EXCEPT !.call_phase = "completed", !.status = "completed",
               !.call_duration = now - cs.start_time, !.last_update = now]

\* fail_call as it would be if it moved the phase as complete_call does
fail_call_moving_phase(cs) ==
    [cs EXCEPT !.call_phase = "failed", !.status = "failed",
               !.call_duration = now - cs.start_time, !.last_update = now]

fail_call(cs) ==
    [cs EXCEPT !.status = "failed",
               !.call_duration = now - cs.start_time, !.last_update = now]

mark_early_disconnected(cs) ==
    [cs EXCEPT !.call_phase = "early_disconnected", !.status = "early_disconnected",
               !.call_duration = now - cs.start_time, !.last_update = now]

set_greeting_played(cs, played) ==
    [cs EXCEPT !.greeting_played = played, !.call_phase = "gathering",
               !.last_update = now]

-----------------------------------------------------------------------------
(* CallStateManager: the registry operations as functions of the map       *)

Put(cm, c, cs) == [x \in DOMAIN cm \cup {c} |-> IF x = c THEN cs ELSE cm[x]]

initialize_call(cm, c, from_number) ==
    IF c \notin DOMAIN cm THEN Put(cm, c, NewCallState(from_number)) ELSE cm

update_call_with_transcription(cm, c, transcription) ==
    IF c \in DOMAIN cm THEN Put(cm, c, update_transcription(cm[c], transcription)) ELSE cm

update_call_with_info(cm, c, extracted_info) ==
    IF c \in DOMAIN cm THEN Put(cm, c, update_extracted_info(cm[c], extracted_info)) ELSE cm

\* process_confirmation emptying the slots when the caller rejects
confirmation_effect_clearing_slots(cs, digit) ==
    IF digit = "1" THEN complete_call(cs)
    ELSE [set_confirmation_pending(cs, FALSE) EXCEPT
             !.extracted_info = [k \in SlotNames |-> None]]

\* the session mutation of process_confirmation (lines 202-212)
confirmation_effect(cs, digit) ==
    IF digit = "1" THEN complete_call(cs) ELSE set_confirmation_pending(cs, FALSE)

process_confirmation(cm, c, digit) ==
    IF c \in DOMAIN cm THEN Put(cm, c, confirmation_effect(cm[c], digit)) ELSE cm

\* the directive and prompt process_confirmation returns
confirmation_response(cm, c, digit) ==
    IF c \notin DOMAIN cm THEN <<"empty", "none">>
    ELSE IF digit = "1" THEN <<"hangup", "completion">>
    ELSE <<"play", "correction">>

\* the early-disconnection test without its look at the slots
is_early_disconnection_by_phase(cs) ==
    cs.call_phase \in {"greeting", "gathering"}

\* the early-disconnection test of update_call_status (lines 230-232)
is_early_disconnection(cs) ==
    /\ cs.call_phase \in {"greeting", "gathering"}
    /\ has_missing_info(cs)
    /\ ~has_complete_info(cs)

\* int(duration) on the CallDuration values of the alphabet
int(duration) == IF duration = "42" THEN 42 ELSE 0

status_effect(cs, status, duration) ==
    IF status = "completed"
    THEN IF is_early_disconnection(cs) THEN mark_early_disconnected(cs)
         ELSE IF duration # ""
              THEN [complete_call(cs) EXCEPT !.call_duration = int(duration)]
              ELSE complete_call(cs)
    ELSE IF status = "failed" THEN fail_call(cs)
    ELSE cs

update_call_status(cm, c, status, duration) ==
    IF c \in DOMAIN cm THEN Put(cm, c, status_effect(cm[c], status, duration)) ELSE cm

\* cleanup_completed_calls with a sweep that does not look at the status
cleanup_by_age_only(cm, max_age) ==
    LET completed_calls == {c \in DOMAIN cm : (now - cm[c].last_update) > max_age}
    IN  [c \in DOMAIN cm \ completed_calls |-> cm[c]]

\* cleanup_completed_calls: the registry it leaves
cleanup_completed_calls(cm, max_age) ==
    LET completed_calls ==
            {c \in DOMAIN cm : /\ cm[c].status \in TerminalStatuses
                                /\ (now - cm[c].last_update) > max_age}
    IN  [c \in DOMAIN cm \ completed_calls |-> cm[c]]

\* the order in which self.calls is iterated
CallIdOrder == <<"CA1", "CA2">>

\* the scan of get_early_disconnection_stats looking at call_phase
RECURSIVE EarlyFrom_by_phase(_, _)
EarlyFrom_by_phase(cm, i) ==
    IF i > Len(CallIdOrder) THEN << >>
    ELSE IF /\ CallIdOrder[i] \in DOMAIN cm
            /\ cm[CallIdOrder[i]].call_phase = "early_disconnected"
         THEN <<CallIdOrder[i]>> \o EarlyFrom_by_phase(cm, i + 1)
         ELSE EarlyFrom_by_phase(cm, i + 1)

\* lines 276-279: the sessions with status early_disconnected, from the i-th on
RECURSIVE EarlyFrom(_, _)
EarlyFrom(cm, i) ==
    IF i > Len(CallIdOrder) THEN << >>
    ELSE IF CallIdOrder[i] \in DOMAIN cm /\ cm[CallIdOrder[i]].status = "early_disconnected"
         THEN <<CallIdOrder[i]>> \o EarlyFrom(cm, i + 1)
         ELSE EarlyFrom(cm, i + 1)

RECURSIVE SumDuration(_, _)
SumDuration(cm, ids) ==
    IF ids = << >> THEN 0 ELSE cm[Head(ids)].call_duration + SumDuration(cm, Tail(ids))

\* get_early_disconnection_stats; the average is in hundredths of a second
\* (round(avg, 2))
get_early_disconnection_stats(cm) ==
    LET early_disconnected == EarlyFrom(cm, 1)
        total == Len(early_disconnected)
    IN  [ total_early_disconnections |-> total,
          average_duration_seconds |->
              IF total > 0 THEN (SumDuration(cm, early_disconnected) * 100) \div total
              ELSE 0,
          early_disconnected_calls |-> early_disconnected ]

\* What a registry method returns: <<cs>> for the session cs, << >> for
\* None, <<"KeyError">> for an exception that leaves the method.

\* self.calls[call_id]: a lookup that raises for an id that is not there
get_call_state_by_index(cm, c) == IF c \in DOMAIN cm THEN <<cm[c]>> ELSE <<"KeyError">>

\* get_call_state: self.calls.get(call_id)
get_call_state(cm, c) == IF c \in DOMAIN cm THEN <<cm[c]>> ELSE << >>

\* what update_call_with_transcription returns (line 166)
update_call_with_transcription_result(cm, c, transcription) ==
    get_call_state(update_call_with_transcription(cm, c, transcription), c)

\* what update_call_with_info returns (line 184)
update_call_with_info_result(cm, c, extracted_info) ==
    get_call_state(update_call_with_info(cm, c, extracted_info), c)

\* what update_call_status returns: it has no return statement
update_call_status_result(cm, c, status, duration) == << >>

-----------------------------------------------------------------------------
(* AIResponseGenerator.generate_next_response: <<session after, prompt>>   *)

generate_next_response(cs) ==
    IF cs.call_phase = "greeting"
    THEN <<[cs EXCEPT !.call_phase = "gathering"], "greeting">>
    ELSE IF cs.call_phase = "gathering"
    THEN IF has_missing_info(cs)
         THEN <<cs, "info_request_" \o get_missing_fields(cs)[1]>>
         ELSE <<set_confirmation_pending([cs EXCEPT !.call_phase = "confirming"], TRUE),
                "gathering_complete">>
    ELSE IF cs.call_phase = "confirming"
    THEN IF has_complete_info(cs) THEN <<cs, "confirmation">> ELSE <<cs, "clarification">>
    ELSE IF cs.call_phase = "completed" THEN <<cs, "completion">>
    ELSE <<cs, "clarification">>

-----------------------------------------------------------------------------
(* Python str methods, on ASCII text whose only whitespace is the space.   *)
(* A string is the sequence of its characters; a character is a string of  *)
(* length one.                                                             *)

\* s[i], counting from 1; "" outside the string
Ch(s, i) == IF i >= 1 /\ i <= Len(s) THEN SubSeq(s, i, i) ELSE ""

UpperCase == "ABCDEFGHIJKLMNOPQRSTUVWXYZ"
LowerCase == "abcdefghijklmnopqrstuvwxyz"
DigitChars == {"0", "1", "2", "3", "4", "5", "6", "7", "8", "9"}

UpperChars == {Ch(UpperCase, i) : i \in 1..Len(UpperCase)}
LowerChars == {Ch(LowerCase, i) : i \in 1..Len(LowerCase)}

\* the lower-case letter of each upper-case letter, and the converse
ToLower == [c \in UpperChars |->
               Ch(LowerCase, CHOOSE i \in 1..Len(UpperCase) : Ch(UpperCase, i) = c)]
ToUpper == [c \in LowerChars |->
               Ch(UpperCase, CHOOSE i \in 1..Len(LowerCase) : Ch(LowerCase, i) = c)]

IsLetter(c) == c \in UpperChars \/ c \in LowerChars

lower_char(c) == IF c \in UpperChars THEN ToLower[c] ELSE c

upper_char(c) == IF c \in LowerChars THEN ToUpper[c] ELSE c

SetMin(S) == CHOOSE x \in S : \A y \in S : x <= y

SetMax(S) == CHOOSE x \in S : \A y \in S : x >= y

\* str.lower()
RECURSIVE lower(_)
lower(s) == IF Len(s) = 0 THEN "" ELSE lower_char(Ch(s, 1)) \o lower(SubSeq(s, 2, Len(s)))

\* str.title(): a letter that follows a non-letter is upper-cased, every
\* other letter is lower-cased
RECURSIVE title_from(_, _)
title_from(s, i) ==
    IF i > Len(s) THEN ""
    ELSE (IF i = 1 \/ ~IsLetter(Ch(s, i - 1))
          THEN upper_char(Ch(s, i)) ELSE lower_char(Ch(s, i))) \o title_from(s, i + 1)

title(s) == title_from(s, 1)

\* phrase in text
contains(text, phrase) ==
    \E i \in 1..(Len(text) - Len(phrase) + 1) : SubSeq(text, i, i + Len(phrase) - 1) = phrase

\* any(phrase in text for phrase in phrases)
contains_any(text, phrases) == \E p \in phrases : contains(text, p)

\* any(char.isdigit() for char in text)
has_digit(text) == \E i \in 1..Len(text) : Ch(text, i) \in DigitChars

\* str.find(), counting from 1; 0 when the phrase does not occur
find(text, phrase) ==
    IF contains(text, phrase)
    THEN SetMin({i \in 1..(Len(text) - Len(phrase) + 1) :
                    SubSeq(text, i, i + Len(phrase) - 1) = phrase})
    ELSE 0

\* text.split(sep, 1)[1], for a text that contains sep
after_first(text, sep) == SubSeq(text, find(text, sep) + Len(sep), Len(text))

\* text.startswith(prefix)
startswith(text, prefix) == Len(prefix) <= Len(text) /\ SubSeq(text, 1, Len(prefix)) = prefix

\* text.replace(old, new), for a non-empty old
RECURSIVE replace(_, _, _)
replace(text, old, new) ==
    IF ~contains(text, old) THEN text
    ELSE SubSeq(text, 1, find(text, old) - 1) \o new
         \o replace(after_first(text, old), old, new)

\* str.strip()
strip(s) ==
    LET keep == {i \in 1..Len(s) : Ch(s, i) # " "}
    IN  IF keep = {} THEN "" ELSE SubSeq(s, SetMin(keep), SetMax(keep))

\* str.rstrip(chars)
rstrip(s, chars) ==
    LET keep == {i \in 1..Len(s) : Ch(s, i) \notin chars}
    IN  IF keep = {} THEN "" ELSE SubSeq(s, 1, SetMax(keep))

\* str.split(): the whitespace-separated words, in order
RECURSIVE split(_)
split(s) ==
    LET t == strip(s)
        spaces == {i \in 1..Len(t) : Ch(t, i) = " "}
    IN  IF Len(t) = 0 THEN << >>
        ELSE IF spaces = {} THEN <<t>>
        ELSE <<SubSeq(t, 1, SetMin(spaces) - 1)>> \o split(SubSeq(t, SetMin(spaces), Len(t)))

\* str.isalpha()
isalpha(s) == Len(s) > 0 /\ \A i \in 1..Len(s) : IsLetter(Ch(s, i))

\* str.isdigit()
isdigit(s) == Len(s) > 0 /\ \A i \in 1..Len(s) : Ch(s, i) \in DigitChars

\* " ".join(words)
RECURSIVE join(_)
join(words) ==
    IF Len(words) = 0 THEN ""
    ELSE IF Len(words) = 1 THEN words[1]
    ELSE words[1] \o " " \o join(Tail(words))

\* int(s) for a string of digits
RECURSIVE int_of(_)
int_of(s) ==
    IF Len(s) = 0 THEN 0
    ELSE 10 * int_of(SubSeq(s, 1, Len(s) - 1))
         + (CHOOSE d \in 0..9 : Ch("0123456789", d + 1) = Ch(s, Len(s)))

\* f"{n:02d}" and f"{n:04d}" for n >= 0
digit_char(d) == Ch("0123456789", d + 1)

RECURSIVE str(_)
str(n) == IF n < 10 THEN digit_char(n) ELSE str(n \div 10) \o digit_char(n % 10)

pad2(n) == IF n < 10 THEN "0" \o str(n) ELSE str(n)

pad4(n) == IF n < 10 THEN "000" \o str(n)
           ELSE IF n < 100 THEN "00" \o str(n)
           ELSE IF n < 1000 THEN "0" \o str(n) ELSE str(n)

-----------------------------------------------------------------------------
(* datetime: the calendar.  A date is [year, month, day]; a day number     *)
(* counts the days since 1970-01-01, a Thursday.                           *)

SecondsPerDay == 24 * 60 * 60

is_leap(y) == y % 4 = 0 /\ (y % 100 # 0 \/ y % 400 = 0)

days_in_month(y, m) ==
    IF m = 2 THEN (IF is_leap(y) THEN 29 ELSE 28)
    ELSE IF m \in {4, 6, 9, 11} THEN 30 ELSE 31

\* datetime(year, month, day) raises ValueError unless this holds
is_valid_date(y, m, d) == m \in 1..12 /\ d >= 1 /\ d <= days_in_month(y, m)

\* the day number of a valid date
days_from_civil(y, m, d) ==
    LET yy  == IF m <= 2 THEN y - 1 ELSE y
        era == yy \div 400
        yoe == yy - era * 400
        mp  == IF m > 2 THEN m - 3 ELSE m + 9
        doy == (153 * mp + 2) \div 5 + d - 1
        doe == yoe * 365 + yoe \div 4 - yoe \div 100 + doy
    IN  era * 146097 + doe - 719468

\* the date of a day number
civil_from_days(z) ==
    LET zz  == z + 719468
        era == zz \div 146097
        doe == zz - era * 146097
        yoe == (doe - doe \div 1460 + doe \div 36524 - doe \div 146096) \div 365
        doy == doe - (365 * yoe + yoe \div 4 - yoe \div 100)
        mp  == (5 * doy + 2) \div 153
        m   == IF mp < 10 THEN mp + 3 ELSE mp - 9
    IN  [year  |-> yoe + era * 400 + (IF m <= 2 THEN 1 ELSE 0),
         month |-> m,
         day   |-> doy - (153 * mp + 2) \div 5 + 1]

\* datetime.now(): its day number, and date.weekday() (Monday is 0)
today_days == now \div SecondsPerDay

weekday(days) == (days + 3) % 7

\* date.strftime("%Y-%m-%d")
strftime(date) == pad4(date.year) \o "-" \o pad2(date.month) \o "-" \o pad2(date.day)

\* (today + timedelta(days=n)).strftime("%Y-%m-%d")
today_plus(n) == strftime(civil_from_days(today_days + n))

-----------------------------------------------------------------------------
(* Early returns: a branch of a parser is modelled by the value it returns, *)
(* "" when it returns nothing and the code goes on to the next branch.      *)

first_of(returned, next) == IF returned # "" THEN returned ELSE next

-----------------------------------------------------------------------------
(* Regular expressions of the parsers                                      *)

\* the index of the first digit of the text, 0 when it has none
first_digit(text) ==
    IF has_digit(text) THEN SetMin({i \in 1..Len(text) : Ch(text, i) \in DigitChars}) ELSE 0

\* \d{1,max} at index i of a digit: the digits it takes (greedy)
digits_at(text, i, max) ==
    LET n == SetMax({k \in 1..max : \A j \in i..(i + k - 1) : Ch(text, j) \in DigitChars})
    IN  SubSeq(text, i, i + n - 1)

\* re.search(r'(\d{1,2})', text).group(1), "" when there is no match
first_number(text) ==
    IF has_digit(text) THEN digits_at(text, first_digit(text), 2) ELSE ""

\* \s* at index i: the index of the first character after the spaces
RECURSIVE skip_spaces(_, _)
skip_spaces(text, i) == IF Ch(text, i) = " " THEN skip_spaces(text, i + 1) ELSE i

\* (a\.?m\.?|p\.?m\.?|am|pm)? at index k: the marker it takes, "" for none
marker_at(text, k) ==
    IF Ch(text, k) \notin {"a", "p"} THEN ""
    ELSE IF Ch(text, k + 1) = "." /\ Ch(text, k + 2) = "m"
    THEN SubSeq(text, k, IF Ch(text, k + 3) = "." THEN k + 3 ELSE k + 2)
    ELSE IF Ch(text, k + 1) = "m"
    THEN SubSeq(text, k, IF Ch(text, k + 2) = "." THEN k + 2 ELSE k + 1)
    ELSE ""

\* (?::(\d{2}))?\s*(a\.?m\.?|p\.?m\.?|am|pm)? at index j, after the hour
\* digits h: groups 1, 2 and 3 ("" for a group that took nothing)
time_groups(text, h, j) ==
    LET has_minute == /\ Ch(text, j) = ":"
                      /\ Ch(text, j + 1) \in DigitChars
                      /\ Ch(text, j + 2) \in DigitChars
    IN  [hour |-> h,
         minute |-> IF has_minute THEN SubSeq(text, j + 1, j + 2) ELSE "",
         am_pm |-> marker_at(text, skip_spaces(text, IF has_minute THEN j + 3 ELSE j))]

\* the match that starts at the digit at index i with the hour digits h
time_match_at(text, i, h) == time_groups(text, h, i + Len(h))

\* re.search(r'(\d{1,max})(?::(\d{2}))?\s*(a\.?m\.?|p\.?m\.?|am|pm)?', text)
\* for a text with a digit
time_match(text, max) ==
    time_match_at(text, first_digit(text), digits_at(text, first_digit(text), max))

\* (\d{1,2})\s*o'?clock matched with the digits starting at index i
oclock_at(text, i, n) ==
    /\ \A j \in i..(i + n - 1) : Ch(text, j) \in DigitChars
    /\ LET k == skip_spaces(text, i + n)
       IN  \/ SubSeq(text, k, IF k + 5 <= Len(text) THEN k + 5 ELSE Len(text)) = "oclock"
           \/ SubSeq(text, k, IF k + 6 <= Len(text) THEN k + 6 ELSE Len(text)) = "o'clock"

\* group 1 of the match that starts at index i
oclock_digits(text, i) ==
    IF oclock_at(text, i, 2) THEN SubSeq(text, i, i + 1) ELSE SubSeq(text, i, i)

\* the indices at which the pattern matches
oclock_starts(text) == {i \in 1..Len(text) : oclock_at(text, i, 1) \/ oclock_at(text, i, 2)}

\* re.search(r"(\d{1,2})\s*o'?clock", text).group(1), "" when there is no match
oclock_match(text) ==
    IF oclock_starts(text) = {} THEN "" ELSE oclock_digits(text, SetMin(oclock_starts(text)))

-----------------------------------------------------------------------------
(* Name parsers: fallback_extraction.clean_name and                        *)
(* SimpleReservationHandler._parse_name                                    *)

Punctuation == {".", ",", "!", "?", ";", ":"}

first_two(words) == IF Len(words) > 2 THEN SubSeq(words, 1, 2) ELSE words

\* " ".join(name_words[:2]).title() if name_words, "" when there is no word
name_of(name_words) ==
    IF Len(name_words) = 0 THEN "" ELSE title(join(first_two(name_words)))

\* the body of each introduction branch: the name returned, "" when the
\* branch returns nothing (no word follows the phrase)
name_after(text_lower, phrase) ==
    name_of(split(rstrip(strip(after_first(text_lower, phrase)), Punctuation)))

IntroductionPhrases == {"my name is", "i'm", "i am", "name is", "call me"}

\* the if / elif chain over the introduction phrases
introduced_name(text_lower) ==
    IF contains(text_lower, "my name is") THEN name_after(text_lower, "my name is")
    ELSE IF contains(text_lower, "i'm") \/ contains(text_lower, "i am")
    THEN first_of(IF contains(text_lower, "i'm") THEN name_after(text_lower, "i'm") ELSE "",
                  IF contains(text_lower, "i am") THEN name_after(text_lower, "i am") ELSE "")
    ELSE IF contains(text_lower, "name is") THEN name_after(text_lower, "name is")
    ELSE IF contains(text_lower, "call me") THEN name_after(text_lower, "call me")
    ELSE ""

SkipWords == {"is", "am", "the", "a", "an", "and", "or", "but", "please", "thank", "you"}

\* the words kept by the filter, joined and title-cased; "" when none is kept
filtered_name(text) ==
    name_of(SelectSeq(split(text), LAMBDA word : lower(word) \notin SkipWords /\ isalpha(word)))

FillerWords == <<"uh", "um", "ah", "er", "like", "so", "actually", "basically">>

\* clean_name, lines 18-24: the loop over the filler words, from the i-th on
RECURSIVE remove_fillers(_, _)
remove_fillers(text, i) ==
    IF i > Len(FillerWords) THEN text
    ELSE LET filler == FillerWords[i]
             t1 == IF startswith(lower(text), filler \o " ")
                   THEN SubSeq(text, Len(filler) + 2, Len(text)) ELSE text
         IN  remove_fillers(replace(t1, " " \o filler \o " ", " "), i + 1)

\* fallback_extraction.clean_name(name_text)
clean_name(name_text) ==
    IF Len(name_text) = 0 THEN ""
    ELSE LET text == remove_fillers(strip(name_text), 1)
         IN  first_of(introduced_name(lower(text)),
             first_of(filtered_name(text),
                      title(rstrip(strip(text), Punctuation))))

\* SimpleReservationHandler._parse_name(name_text)
_parse_name(name_text) ==
    LET text == strip(name_text)
    IN  first_of(introduced_name(lower(text)),
        first_of(IF contains_any(lower(text), IntroductionPhrases) THEN ""
                 ELSE filtered_name(text),
                 title(rstrip(strip(text), Punctuation))))

-----------------------------------------------------------------------------
(* Date parsers: fallback_extraction.parse_date and                        *)
(* SimpleReservationHandler._parse_date                                    *)

Weekdays == <<"monday", "tuesday", "wednesday", "thursday", "friday", "saturday", "sunday">>

\* weekday_date counting today as the coming occurrence of its own weekday
weekday_date_including_today(text, i) ==
    LET days_ahead == (i - 1) - weekday(today_days)
        d1 == IF days_ahead < 0 THEN days_ahead + 7 ELSE days_ahead
        d2 == IF contains(text, "next " \o Weekdays[i]) THEN d1 + 7 ELSE d1
    IN  today_plus(d2)

\* parse_date, lines 104-116: the date for the weekday Weekdays[i]
weekday_date(text, i) ==
    LET days_ahead == (i - 1) - weekday(today_days)
        d1 == IF days_ahead <= 0 THEN days_ahead + 7 ELSE days_ahead
        d2 == IF contains(text, "next " \o Weekdays[i]) THEN d1 + 7 ELSE d1
    IN  today_plus(d2)

\* the months dict, in insertion order
Months ==
    << <<"january", 1>>, <<"february", 2>>, <<"march", 3>>, <<"april", 4>>, <<"may", 5>>,
       <<"june", 6>>, <<"july", 7>>, <<"august", 8>>, <<"september", 9>>, <<"october", 10>>,
       <<"november", 11>>, <<"december", 12>>, <<"jan", 1>>, <<"feb", 2>>, <<"mar", 3>>,
       <<"apr", 4>>, <<"jun", 6>>, <<"jul", 7>>, <<"aug", 8>>, <<"sep", 9>>, <<"oct", 10>>,
       <<"nov", 11>>, <<"dec", 12>> >>

\* parse_date, lines 128-137: datetime(y, month, day), moved to the next
\* year when it is before datetime.now(); "" when datetime() raises
month_date_in(y, month, day) ==
    IF ~is_valid_date(y, month, day) THEN ""
    ELSE IF days_from_civil(y, month, day) * SecondsPerDay < now
    THEN IF is_valid_date(y + 1, month, day)
         THEN strftime([year |-> y + 1, month |-> month, day |-> day])
         ELSE ""
    ELSE strftime([year |-> y, month |-> month, day |-> day])

\* with y = today.year
month_date(month, day) == month_date_in(civil_from_days(today_days).year, month, day)

\* parse_date, lines 123-137: the loop over the months, from the i-th on;
\* "" when it returns nothing
RECURSIVE month_loop(_, _)
month_loop(text, i) ==
    IF i > Len(Months) THEN ""
    ELSE first_of(IF contains(text, Months[i][1]) /\ has_digit(text)
                  THEN month_date(Months[i][2], int_of(first_number(text)))
                  ELSE "",
                  month_loop(text, i + 1))

\* fallback_extraction.parse_date(date_text)
parse_date(date_text) ==
    LET text == lower(date_text)
        named == {i \in 1..Len(Weekdays) : contains(text, Weekdays[i])}
    IN  IF Len(date_text) = 0 THEN today_plus(0)
        ELSE IF contains(text, "today") THEN today_plus(0)
        ELSE IF contains(text, "tomorrow") THEN today_plus(1)
        ELSE IF named # {} THEN weekday_date(text, SetMin(named))
        ELSE first_of(month_loop(text, 1), today_plus(0))

\* SimpleReservationHandler._parse_date(date_text)
_parse_date(date_text) ==
    LET text == lower(date_text)
    IN  IF contains(text, "today") THEN today_plus(0)
        ELSE IF contains(text, "tomorrow") THEN today_plus(1)
        ELSE IF (contains(text, "september") \/ contains(text, "sep")) /\ has_digit(date_text)
        THEN "2025-09-" \o pad2(int_of(first_number(date_text)))
        ELSE today_plus(0)

-----------------------------------------------------------------------------
(* Time parsers: fallback_extraction.parse_time and                        *)
(* SimpleReservationHandler._parse_time                                    *)

\* the named periods of the day, tested before any number: the time
\* returned, "" when the text names none
named_period(text) ==
    IF contains(text, "morning") /\ ~contains_any(text, {"evening", "afternoon", "night"})
    THEN "11:00"
    ELSE IF contains(text, "afternoon") THEN "15:00"
    ELSE IF contains(text, "evening") \/ contains(text, "night") THEN "19:00"
    ELSE IF contains(text, "lunch") THEN "13:00"
    ELSE IF contains(text, "dinner") THEN "19:00"
    ELSE IF contains(text, "breakfast") THEN "09:00"
    ELSE ""

\* the conversion of an hour in 1..12 to the 24-hour clock
to_24_hour(hour, am_pm) ==
    IF am_pm # ""
    THEN IF am_pm \in {"a.m.", "am", "a m"} THEN (IF hour = 12 THEN 0 ELSE hour)
         ELSE IF am_pm \in {"p.m.", "pm", "p m"} THEN (IF hour # 12 THEN hour + 12 ELSE hour)
         ELSE hour
    ELSE IF hour >= 1 /\ hour <= 6 THEN hour + 12 ELSE hour

\* lines 186-202: f"{hour:02d}:{minute}" for the hour, the minute group and
\* the marker; "" when the hour is not in 1..12
clock_time(hour, minute, am_pm) ==
    IF hour >= 1 /\ hour <= 12
    THEN pad2(to_24_hour(hour, am_pm)) \o ":" \o (IF minute # "" THEN minute ELSE "00")
    ELSE ""

\* lines 171-184.  The minute is "00" before the test "len(raw_hour) >= 3
\* and not minute", so the hour is always int(raw_hour).
match_time(m) == clock_time(int_of(m.hour), m.minute, m.am_pm)

\* the numeric branch, "" when it returns nothing
numeric_time(text, max) ==
    IF ~has_digit(text) THEN "" ELSE match_time(time_match(text, max))

\* lines 208-213: the time for the hour of an "o'clock" match
oclock_hour(hour) ==
    IF hour >= 1 /\ hour <= 12 THEN pad2(IF hour <= 6 THEN hour + 12 ELSE hour) \o ":00"
    ELSE ""

\* the "o'clock" branch, "" when it returns nothing
oclock_time(text) ==
    IF oclock_match(text) = "" THEN "" ELSE oclock_hour(int_of(oclock_match(text)))

NumberWords ==
    <<"one", "two", "three", "four", "five", "six", "seven", "eight", "nine", "ten",
      "eleven", "twelve">>

\* the written numbers: the loop over the first count entries of the dict
\* (entry 12 + n is the digit string of n); "" when no entry is in the text
number_word_time(text, count) ==
    LET word(i) == IF i <= 12 THEN NumberWords[i] ELSE str(i - 12)
        found == {i \in 1..count : contains(text, word(i))}
        num == IF SetMin(found) <= 12 THEN SetMin(found) ELSE SetMin(found) - 12
        hour == IF contains_any(text, {"pm", "p.m.", "evening", "night"})
                THEN (IF num # 12 THEN num + 12 ELSE 12)
                ELSE IF contains_any(text, {"am", "a.m.", "morning"})
                THEN (IF num = 12 THEN 0 ELSE num)
                ELSE IF num >= 1 /\ num <= 6 THEN num + 12 ELSE num
    IN  IF found = {} THEN "" ELSE pad2(hour) \o ":00"

\* parse_time trying the numeric pattern before the named periods
parse_time_numbers_first(time_str) ==
    LET text == strip(lower(time_str))
    IN  IF Len(time_str) = 0 THEN None
        ELSE first_of(numeric_time(text, 4),
             first_of(named_period(text),
             first_of(oclock_time(text),
             first_of(number_word_time(text, 12), "19:00"))))

\* fallback_extraction.parse_time(time_str)
parse_time(time_str) ==
    LET text == strip(lower(time_str))
    IN  IF Len(time_str) = 0 THEN None
        ELSE first_of(named_period(text),
             first_of(numeric_time(text, 4),
             first_of(oclock_time(text),
             first_of(number_word_time(text, 12), "19:00"))))

\* _parse_time, lines 303-311: the literal times tested last
literal_time(text) ==
    IF contains_any(text, {"3:00", "3pm", "3 pm"}) THEN "15:00"
    ELSE IF contains_any(text, {"6:00", "6pm", "6 pm"}) THEN "18:00"
    ELSE IF contains_any(text, {"7:00", "7pm", "7 pm"}) THEN "19:00"
    ELSE IF contains_any(text, {"7:30", "7:30pm"}) THEN "19:30"
    ELSE ""

\* SimpleReservationHandler._parse_time(time_text)
_parse_time(time_text) ==
    LET text == strip(lower(time_text))
    IN  first_of(named_period(text),
        first_of(numeric_time(text, 2),
        first_of(oclock_time(text),
        first_of(number_word_time(text, 24),
        first_of(literal_time(text), "19:00")))))

-----------------------------------------------------------------------------
(* SimpleReservationHandler: the step-by-step flow                         *)

\* process_customer_response starting the flow again when it is called after
\* the last step
process_customer_response_restarting(sd, u, db_ok) ==
    IF sd.step = 1
    THEN [text |-> "ask_date", is_complete |-> FALSE, saved |-> 0,
          session |-> [sd EXCEPT !.name = _parse_name(u), !.step = 2]]
    ELSE IF sd.step = 2
    THEN [text |-> "ask_time", is_complete |-> FALSE, saved |-> 0,
          session |-> [sd EXCEPT !.date = _parse_date(u), !.step = 3]]
    ELSE IF sd.step = 3
    THEN [text |-> IF db_ok THEN "confirmed" ELSE "save_error",
          is_complete |-> db_ok, saved |-> 1,
          session |-> [sd EXCEPT !.time = _parse_time(u), !.step = 4]]
    ELSE [text |-> "ask_name_again", is_complete |-> FALSE, saved |-> 0,
          session |-> [sd EXCEPT !.step = 1]]

\* process_customer_response(session_data, customer_response), with the
\* outcome db_ok of the database calls made by _save_reservation:
\* [text, is_complete, session, saved]
process_customer_response(sd, u, db_ok) ==
    IF sd.step = 1
    THEN [text |-> "ask_date", is_complete |-> FALSE, saved |-> 0,
          session |-> [sd EXCEPT !.name = _parse_name(u), !.step = 2]]
    ELSE IF sd.step = 2
    THEN [text |-> "ask_time", is_complete |-> FALSE, saved |-> 0,
          session |-> [sd EXCEPT !.date = _parse_date(u), !.step = 3]]
    ELSE IF sd.step = 3
    THEN [text |-> IF db_ok THEN "confirmed" ELSE "save_error",
          is_complete |-> db_ok, saved |-> 1,
          session |-> [sd EXCEPT !.time = _parse_time(u), !.step = 4]]
    ELSE [text |-> "ask_name_again", is_complete |-> FALSE, saved |-> 0, session |-> sd]

-----------------------------------------------------------------------------
(* app.py: helpers of the webhook handlers                                 *)

\* "reservation" in speech_lower or "book" in speech_lower or
\* "reserve" in speech_lower (gather_input, line 469)
is_reservation_request(u) == contains_any(lower(u), {"reservation", "book", "reserve"})

\* detect_intent, lines 241-246: the conversation-ending phrases
EndingPhrases ==
    {"that's all", "no more", "nothing else", "that's it", "no thanks",
     "i'm good", "that's fine", "no more questions", "that's everything"}

\* call_state.call_phase == "gathering" and call_state.get_missing_fields()
\* and call_state.get_missing_fields()[0] == field
asking_for(cs, field) ==
    /\ cs.call_phase = "gathering"
    /\ Len(get_missing_fields(cs)) > 0
    /\ get_missing_fields(cs)[1] = field

\* detect_intent, lines 249-299: the intent returned inside the reservation
\* conversation, or "" when the block returns nothing
providing_intent(t, cs) ==
    IF contains_any(t, {"my name is", "i'm", "name is", "call me", "i am"})
    THEN "providing_name"
    ELSE IF \/ contains_any(t, {"tomorrow", "today", "next", "monday", "tuesday",
                                "wednesday", "thursday", "friday", "saturday", "sunday"})
            \/ contains_any(t, {"-", "/"})
    THEN "providing_date"
    ELSE IF /\ contains_any(t, {"at", "o'clock", "pm", "am", "evening", "afternoon",
                                "morning", "night"})
            /\ ~contains_any(t, {"what", "your", "opening", "closing", "hours", "time"})
    THEN "providing_time"
    ELSE IF /\ (contains_any(t, {"people", "person", "party", "group"}) \/ has_digit(t))
            /\ ~contains_any(t, {"how many", "what", "question"})
    THEN "providing_party_size"
    ELSE IF has_digit(t) /\ contains_any(t, {"phone", "number", "call"})
    THEN "providing_phone"
    ELSE IF contains(t, "@") /\ contains(t, ".")
    THEN "providing_email"
    ELSE IF asking_for(cs, "name") /\ Len(split(strip(t))) = 1 /\ isalpha(split(strip(t))[1])
    THEN "providing_name"
    ELSE IF /\ asking_for(cs, "time")
            /\ \/ contains_any(t, {"p.m.", "a.m.", "evening", "afternoon", "morning", "night"})
               \/ has_digit(t)
    THEN "providing_time"
    ELSE IF asking_for(cs, "party_size") /\ has_digit(t)
    THEN "providing_party_size"
    ELSE IF asking_for(cs, "phone") /\ has_digit(t)
    THEN "providing_phone"
    ELSE IF asking_for(cs, "email") /\ contains(t, "@") /\ contains(t, ".")
    THEN "providing_email"
    ELSE ""

\* the keyword intents with the opening hours tested before the reservation
keyword_intent_hours_first(t) ==
    IF contains_any(t, {"hours", "open", "close", "time", "operating", "when"})
    THEN "hours"
    ELSE IF contains_any(t, {"book", "reserve", "reservation", "table", "booking",
                             "make a reservation"})
    THEN "reservation"
    ELSE IF contains_any(t, {"menu", "food", "dish", "eat", "special", "recommend",
                             "what do you have"})
    THEN "menu"
    ELSE IF contains(t, "halal") THEN "halal"
    ELSE IF contains_any(t, {"vegan", "vegetarian", "plant-based"}) THEN "vegan"
    ELSE IF contains_any(t, {"parking", "car", "drive", "park"}) THEN "parking"
    ELSE IF contains_any(t, {"location", "address", "where", "find", "directions"})
    THEN "location"
    ELSE IF contains_any(t, {"phone", "call", "contact", "number", "reach you"})
    THEN "contact"
    ELSE IF contains_any(t, {"price", "cost", "expensive", "cheap", "how much"})
    THEN "price"
    ELSE "general"

\* detect_intent, lines 301-337: the keyword intents
keyword_intent(t) ==
    IF contains_any(t, {"book", "reserve", "reservation", "table", "booking",
                        "make a reservation"})
    THEN "reservation"
    ELSE IF contains_any(t, {"hours", "open", "close", "time", "operating", "when"})
    THEN "hours"
    ELSE IF contains_any(t, {"menu", "food", "dish", "eat", "special", "recommend",
                             "what do you have"})
    THEN "menu"
    ELSE IF contains(t, "halal") THEN "halal"
    ELSE IF contains_any(t, {"vegan", "vegetarian", "plant-based"}) THEN "vegan"
    ELSE IF contains_any(t, {"parking", "car", "drive", "park"}) THEN "parking"
    ELSE IF contains_any(t, {"location", "address", "where", "find", "directions"})
    THEN "location"
    ELSE IF contains_any(t, {"phone", "call", "contact", "number", "reach you"})
    THEN "contact"
    ELSE IF contains_any(t, {"price", "cost", "expensive", "cheap", "how much"})
    THEN "price"
    ELSE "general"

\* detect_intent answering with the intent of the previous turn when the
\* session has one
detect_intent_following_last_intent(u, cs) ==
    IF contains_any(lower(u), EndingPhrases) THEN "end_conversation"
    ELSE IF cs.last_intent # None THEN cs.last_intent
    ELSE first_of(IF cs.intent = "reservation" THEN providing_intent(lower(u), cs) ELSE "",
                  keyword_intent(lower(u)))

\* detect_intent looking for the ending phrases after the reservation block
detect_intent_ending_last(u, cs) ==
    first_of(IF cs.intent = "reservation" THEN providing_intent(lower(u), cs) ELSE "",
             IF contains_any(lower(u), EndingPhrases) THEN "end_conversation"
             ELSE keyword_intent(lower(u)))

\* AIResponseGenerator.detect_intent(text, call_state): the intent returned.
\* The method assigns to no attribute of call_state and reads no other state.
detect_intent(u, cs) ==
    LET text_lower == lower(u)
    IN  IF contains_any(text_lower, EndingPhrases) THEN "end_conversation"
        ELSE first_of(IF cs.intent = "reservation" THEN providing_intent(text_lower, cs)
                      ELSE "",
                      keyword_intent(text_lower))

\* confirm_reservation, lines 617-623: speech yes/no overrides the digit
normalize_digit(digit, speech) ==
    IF speech = "yes" THEN "1" ELSE IF speech = "no" THEN "2" ELSE digit

\* save_reservation: does it reach the database (name, date and time truthy)?
save_reaches_db(data) ==
    /\ data["name"] \notin {None, ""}
    /\ data["date"] \notin {None, ""}
    /\ data["time"] \notin {None, ""}

\* gather_input, lines 467-537: a reservation request.
\* [cs, directive, prompt]
gather_reservation_request(cs0) ==
    LET cs1 == [cs0 EXCEPT !.intent = "reservation", !.call_phase = "gathering"]
        cs2 == IF cs1.reservation_session = << >>
               THEN [cs1 EXCEPT !.reservation_session = <<NewReservationSession>>]
               ELSE cs1
        rs  == cs2.reservation_session[1]
    IN  IF rs.name \notin {None, ""} /\ rs.step >= 1
        THEN IF rs.step = 1
             THEN [cs |-> [cs2 EXCEPT !.reservation_session = <<[rs EXCEPT !.step = 2]>>],
                   directive |-> "gather", prompt |-> "ask_date"]
             ELSE IF rs.step = 2
             THEN [cs |-> cs2, directive |-> "gather", prompt |-> "ask_date"]
             ELSE IF rs.step = 3
             THEN [cs |-> cs2, directive |-> "gather", prompt |-> "ask_time"]
             ELSE [cs |-> cs2, directive |-> "hangup", prompt |-> "confirmed"]
        ELSE [cs |-> cs2, directive |-> "gather", prompt |-> "ask_name"]

\* gather_input, lines 539-560: an answer in the running reservation flow
\* lines 546-560: the session and the reply for the result r of
\* process_customer_response
answer_outcome(cs, r) ==
    [cs |-> [cs EXCEPT !.reservation_session = <<r.session>>],
     directive |-> IF r.is_complete THEN "hangup" ELSE "gather",
     prompt |-> r.text, saved |-> r.saved]

gather_reservation_answer(cs, u, db_ok) ==
    answer_outcome(cs, process_customer_response(cs.reservation_session[1], u, db_ok))

\* gather_input, lines 562-580: a general inquiry
\* lines 567-573: the turn is recorded with its intent
record_intent(cs, u, intent) ==
    [cs EXCEPT !.last_intent = intent,
               !.conversation_history = Append(@, [user_input |-> u, intent |-> intent])]

gather_general_inquiry(cs, u) == record_intent(cs, u, detect_intent(u, cs))

in_reservation_flow(cs) == cs.intent = "reservation" /\ cs.reservation_session # << >>

-----------------------------------------------------------------------------
(* Spec: every operation and handler runs to completion, one at a time     *)

Threads == {"t1", "t2"}
NoThread == "none"

IdleLoc == [speech_result |-> "", current_step |-> 0]

Init ==
    /\ calls = << >>
    /\ saves = [c \in CallIds |-> 0]
    /\ reservations = [c \in CallIds |-> 0]
    /\ lock = NoThread
    /\ pc = [t \in Threads |-> "idle"]
    /\ loc = [t \in Threads |-> IdleLoc]
    /\ handled = 0
    /\ now = 0
    /\ made = [c \in CallIds |-> 0]
    /\ stream_calls = << >>

Sequential == UNCHANGED <<lock, pc, loc, handled, now, made, stream_calls>>

\* CallStateManager.initialize_call, as twilio_handler.handle_incoming_call uses it
InitializeCall(c, from_number) ==
    /\ calls' = initialize_call(calls, c, from_number)
    /\ UNCHANGED <<saves, reservations>> /\ Sequential

UpdateCallWithTranscription(c, transcription) ==
    /\ c \in DOMAIN calls /\ transcription # ""
           => Len(calls[c].transcription_history) < MaxHistory
    /\ calls' = update_call_with_transcription(calls, c, transcription)
    /\ UNCHANGED <<saves, reservations>> /\ Sequential

UpdateCallWithInfo(c, extracted_info) ==
    /\ calls' = update_call_with_info(calls, c, extracted_info)
    /\ UNCHANGED <<saves, reservations>> /\ Sequential

\* CallStateManager.process_confirmation, as twilio_handler.handle_confirmation uses it
ProcessConfirmation(c, digit) ==
    /\ calls' = process_confirmation(calls, c, digit)
    /\ UNCHANGED <<saves, reservations>> /\ Sequential

\* CallStateManager.update_call_status, as the call_status handlers use it
UpdateCallStatus(c, status, duration) ==
    /\ calls' = update_call_status(calls, c, status, duration)
    /\ UNCHANGED <<saves, reservations>> /\ Sequential

\* generate_next_response on the session of call c (process_audio_stream, line 74)
GenerateNextResponse(c) ==
    /\ calls' = IF c \in DOMAIN calls
                THEN Put(calls, c, generate_next_response(calls[c])[1])
                ELSE calls
    /\ UNCHANGED <<saves, reservations>> /\ Sequential

\* app.py incoming_call: the session it leaves in the registry
incoming_call(cm, c, from_number) ==
    LET cm1 == initialize_call(cm, c, from_number)
    IN  Put(cm1, c, set_greeting_played(cm1[c], TRUE))

IncomingCall(c, from_number) ==
    /\ calls' = incoming_call(calls, c, from_number)
    /\ UNCHANGED <<saves, reservations>> /\ Sequential

\* app.py gather_input: [cs, directive, prompt, saved] for a non-empty
\* utterance u on session cs
gather_input(cs, u, db_ok) ==
    IF is_reservation_request(u)
    THEN LET r == gather_reservation_request(cs)
         IN  [cs |-> r.cs, directive |-> r.directive, prompt |-> r.prompt, saved |-> 0]
    ELSE IF in_reservation_flow(cs)
    THEN gather_reservation_answer(cs, u, db_ok)
    ELSE [cs |-> gather_general_inquiry(cs, u), directive |-> "gather",
          prompt |-> detect_intent(u, cs), saved |-> 0]

\* the handler leaves session r.cs for call c and has asked for r.saved saves
Answer(cm, c, r, db_ok) ==
    /\ saves[c] + r.saved <= MaxSaves
    /\ Len(r.cs.conversation_history) <= MaxHistory
    /\ calls' = Put(cm, c, r.cs)
    /\ saves' = [saves EXCEPT ![c] = @ + r.saved]
    /\ reservations' = [reservations EXCEPT ![c] = @ + IF db_ok THEN r.saved ELSE 0]

GatherInput(c, u, db_ok) ==
    /\ IF u = ""
       THEN UNCHANGED <<calls, saves, reservations>>
       ELSE LET cm == initialize_call(calls, c, None)
            IN  Answer(cm, c, gather_input(cm[c], u, db_ok), db_ok)
    /\ Sequential

\* app.py confirm_reservation: [persisted, directive, prompt]
confirm_reservation(cm, c, digit, speech, db_ok) ==
    LET d == normalize_digit(digit, speech)
        known == c \in DOMAIN cm
        persisted == IF d = "1" /\ known /\ save_reaches_db(cm[c].extracted_info)
                     THEN 1 ELSE 0
    IN  IF d = "1"
        THEN [persisted |-> persisted, directive |-> "hangup",
              prompt |-> IF ~known THEN "start_over"
                         ELSE IF persisted = 1 /\ db_ok THEN "completion"
                         ELSE "save_error"]
        ELSE IF d = "2"
        THEN [persisted |-> 0, directive |-> "gather", prompt |-> "correction"]
        ELSE IF known /\ has_complete_info(cm[c])
        THEN [persisted |-> 0, directive |-> "gather_digit", prompt |-> "confirmation"]
        ELSE [persisted |-> 0, directive |-> "gather", prompt |-> "clarification"]

ConfirmReservation(c, digit, speech, db_ok) ==
    LET r == confirm_reservation(calls, c, digit, speech, db_ok)
    IN  /\ saves[c] + r.persisted <= MaxSaves
        /\ saves' = [saves EXCEPT ![c] = @ + r.persisted]
        /\ reservations' = [reservations EXCEPT ![c] = @ + IF db_ok THEN r.persisted ELSE 0]
        /\ UNCHANGED calls
        /\ Sequential

Next ==
    \/ \E c \in SpecCallIds, n \in Numbers : InitializeCall(c, n)
    \/ \E c \in SpecCallIds, t \in Transcriptions : UpdateCallWithTranscription(c, t)
    \/ \E c \in SpecCallIds, i \in InfoInputs : UpdateCallWithInfo(c, i)
    \/ \E c \in SpecCallIds, d \in Digits : ProcessConfirmation(c, d)
    \/ \E c \in SpecCallIds, s \in StatusEvents, d \in Durations : UpdateCallStatus(c, s, d)
    \/ \E c \in SpecCallIds : GenerateNextResponse(c)
    \/ \E c \in SpecCallIds, n \in Numbers : IncomingCall(c, n)
    \/ \E c \in SpecCallIds, u \in Utterances, ok \in BOOLEAN : GatherInput(c, u, ok)
    \/ \E c \in SpecCallIds, d \in Digits, s \in ConfirmSpeech, ok \in BOOLEAN :
          ConfirmReservation(c, d, s, ok)

Spec == Init /\ [][Next]_vars

-----------------------------------------------------------------------------
(* ConcSpec: two worker threads (Flask serves each request on its own      *)
(* thread) handle events for one call id.  A registry method whose body    *)
(* makes no outside call is one step taken while the lock is free; the     *)
(* statements a handler runs on the session reference after the method     *)
(* returned are steps of their own.                                        *)

ConcCall == "CA1"

Goto(t, label) == pc' = [pc EXCEPT ![t] = label]

\* incoming_call, line 435: initialize_call returns the session reference
IcInitialize(t) ==
    /\ pc[t] = "idle" /\ lock = NoThread
    /\ calls' = initialize_call(calls, ConcCall, "+44")
    /\ Goto(t, "ic_greet")
    /\ UNCHANGED <<saves, reservations, lock, loc, handled, now, made, stream_calls>>

\* incoming_call, line 438: call_state.set_greeting_played(True)
IcGreet(t) ==
    /\ pc[t] = "ic_greet"
    /\ calls' = Put(calls, ConcCall, set_greeting_played(calls[ConcCall], TRUE))
    /\ Goto(t, "tts")
    /\ UNCHANGED <<saves, reservations, lock, loc, handled, now, made, stream_calls>>

\* the create_gather_response / create_hangup_response call that ends a
\* handler of app.py: speech synthesis, outside the registry
Tts(t) ==
    /\ pc[t] = "tts"
    /\ Goto(t, "idle")
    /\ loc' = [loc EXCEPT ![t] = IdleLoc]
    /\ UNCHANGED <<calls, saves, reservations, lock, handled, now, made, stream_calls>>

\* gather_input, lines 463-465: get_call_state, else initialize_call
GatherLookup(t, u) ==
    /\ pc[t] = "idle" /\ lock = NoThread
    /\ handled < MaxAnswers
    /\ calls' = initialize_call(calls, ConcCall, None)
    /\ loc' = [loc EXCEPT ![t].speech_result = u]
    /\ Goto(t, "g_dispatch")
    /\ UNCHANGED <<saves, reservations, lock, handled, now, made, stream_calls>>

\* gather_input, lines 469 and 540: which branch the handler takes
GatherDispatch(t) ==
    /\ pc[t] = "g_dispatch"
    /\ Goto(t, IF is_reservation_request(loc[t].speech_result) THEN "g_request"
               ELSE IF in_reservation_flow(calls[ConcCall]) THEN "p_read"
               ELSE "g_general")
    /\ UNCHANGED <<calls, saves, reservations, lock, loc, handled, now, made, stream_calls>>

\* gather_input, lines 471-531
GatherRequest(t) ==
    /\ pc[t] = "g_request"
    /\ calls' = Put(calls, ConcCall, gather_reservation_request(calls[ConcCall]).cs)
    /\ Goto(t, "tts")
    /\ UNCHANGED <<saves, reservations, lock, loc, handled, now, made, stream_calls>>

\* gather_input, lines 563-573
GatherGeneral(t) ==
    /\ pc[t] = "g_general"
    /\ Len(calls[ConcCall].conversation_history) < MaxHistory
    /\ calls' = Put(calls, ConcCall,
                    gather_general_inquiry(calls[ConcCall], loc[t].speech_result))
    /\ Goto(t, "tts")
    /\ UNCHANGED <<saves, reservations, lock, loc, handled, now, made, stream_calls>>

\* process_customer_response, line 58: current_step = session_data["step"]
PcrReadStep(t) ==
    /\ pc[t] = "p_read"
    /\ loc' = [loc EXCEPT ![t].current_step = calls[ConcCall].reservation_session[1].step]
    /\ Goto(t, IF calls[ConcCall].reservation_session[1].step \in {1, 2, 3}
               THEN "p_field" ELSE "p_return")
    /\ UNCHANGED <<calls, saves, reservations, lock, handled, now, made, stream_calls>>

\* process_customer_response, lines 64, 72, 80: session_data[field] = parsed value
PcrWriteField(t) ==
    /\ pc[t] = "p_field"
    /\ LET u == loc[t].speech_result
           k == loc[t].current_step
           rs == calls[ConcCall].reservation_session[1]
           rs1 == IF k = 1 THEN [rs EXCEPT !.name = _parse_name(u)]
                  ELSE IF k = 2 THEN [rs EXCEPT !.date = _parse_date(u)]
                  ELSE [rs EXCEPT !.time = _parse_time(u)]
       IN  calls' = Put(calls, ConcCall,
                        [calls[ConcCall] EXCEPT !.reservation_session = <<rs1>>])
    /\ Goto(t, "p_step")
    /\ UNCHANGED <<saves, reservations, lock, loc, handled, now, made, stream_calls>>

\* process_customer_response, lines 65, 73, 81: session_data["step"] = current_step + 1
PcrWriteStep(t) ==
    /\ pc[t] = "p_step"
    /\ LET rs == calls[ConcCall].reservation_session[1]
       IN  calls' = Put(calls, ConcCall,
                        [calls[ConcCall] EXCEPT !.reservation_session =
                            <<[rs EXCEPT !.step = loc[t].current_step + 1]>>])
    /\ Goto(t, IF loc[t].current_step = 3 THEN "p_save" ELSE "p_return")
    /\ UNCHANGED <<saves, reservations, lock, loc, handled, now, made, stream_calls>>

\* process_customer_response, line 85: _save_reservation (the database)
PcrSave(t, db_ok) ==
    /\ pc[t] = "p_save"
    /\ saves[ConcCall] < MaxSaves
    /\ saves' = [saves EXCEPT ![ConcCall] = @ + 1]
    /\ reservations' = [reservations EXCEPT ![ConcCall] = @ + IF db_ok THEN 1 ELSE 0]
    /\ Goto(t, "p_return")
    /\ UNCHANGED <<calls, lock, loc, handled, now, made, stream_calls>>

\* process_customer_response returns; gather_input, line 548 stores the same dict back
PcrReturn(t) ==
    /\ pc[t] = "p_return"
    /\ handled' = handled + 1
    /\ Goto(t, "tts")
    /\ UNCHANGED <<calls, saves, reservations, lock, loc, now, made, stream_calls>>

\* process_confirmation, lines 197-204 and 209: the lock is taken and the
\* session mutated; an unknown id returns at once (line 200)
PcLock(t, digit) ==
    /\ pc[t] = "idle" /\ lock = NoThread
    /\ calls' = process_confirmation(calls, ConcCall, digit)
    /\ IF ConcCall \in DOMAIN calls
       THEN lock' = t /\ Goto(t, "pc_tts")
       ELSE UNCHANGED <<lock, pc>>
    /\ UNCHANGED <<saves, reservations, loc, handled, now, made, stream_calls>>

\* process_confirmation, lines 206 and 211: tts_handler.create_hangup_response /
\* create_response inside the with-block, then the block ends
PcTtsUnlock(t) ==
    /\ pc[t] = "pc_tts"
    /\ lock' = NoThread
    /\ Goto(t, "idle")
    /\ UNCHANGED <<calls, saves, reservations, loc, handled, now, made, stream_calls>>

\* update_call_status: the whole method under the lock
CsUpdate(t, status) ==
    /\ pc[t] = "idle" /\ lock = NoThread
    /\ calls' = update_call_status(calls, ConcCall, status, "")
    /\ UNCHANGED <<saves, reservations, lock, pc, loc, handled, now, made, stream_calls>>

ConcNext ==
    \E t \in Threads :
        \/ IcInitialize(t)
        \/ IcGreet(t)
        \/ Tts(t)
        \/ \E u \in ConcUtterances : GatherLookup(t, u)
        \/ GatherDispatch(t)
        \/ GatherRequest(t)
        \/ GatherGeneral(t)
        \/ PcrReadStep(t)
        \/ PcrWriteField(t)
        \/ PcrWriteStep(t)
        \/ \E ok \in BOOLEAN : PcrSave(t, ok)
        \/ PcrReturn(t)
        \/ \E d \in {"1", "2"} : PcLock(t, d)
        \/ PcTtsUnlock(t)
        \/ \E s \in {"completed", "failed"} : CsUpdate(t, s)

ConcSpec == Init /\ [][ConcNext]_vars

-----------------------------------------------------------------------------
(* RegSpec: the registry methods, each run whole under the lock, on two    *)
(* call ids, with the clock running and the periodic sweep.                *)

\* max_age values handed to cleanup_completed_calls
MaxAges == {0, 1}

\* time passes between two registry calls
Tick ==
    /\ now < MaxClock
    /\ now' = now + 1
    /\ UNCHANGED <<calls, saves, reservations, lock, pc, loc, handled, made, stream_calls>>

\* get_call_state changes nothing
GetCallState(c) ==
    /\ UNCHANGED calls
    /\ UNCHANGED <<saves, reservations>> /\ Sequential

CleanupCompletedCalls(max_age) ==
    /\ calls' = cleanup_completed_calls(calls, max_age)
    /\ UNCHANGED <<saves, reservations>> /\ Sequential

\* get_early_disconnection_stats changes nothing
GetEarlyDisconnectionStats ==
    /\ UNCHANGED calls
    /\ UNCHANGED <<saves, reservations>> /\ Sequential

RegNext ==
    \/ Tick
    \/ \E c \in CallIds, n \in Numbers : InitializeCall(c, n)
    \/ \E c \in CallIds : GetCallState(c)
    \/ \E c \in CallIds, t \in Transcriptions : UpdateCallWithTranscription(c, t)
    \/ \E c \in CallIds :
          UpdateCallWithInfo(c, [k \in {"name", "date"} |-> IF k = "name" THEN None ELSE ""])
    \/ \E c \in CallIds : ProcessConfirmation(c, "1")
    \/ \E c \in CallIds, s \in {"completed", "failed"} : UpdateCallStatus(c, s, "")
    \/ \E a \in MaxAges : CleanupCompletedCalls(a)
    \/ GetEarlyDisconnectionStats

RegSpec == Init /\ [][RegNext]_vars

-----------------------------------------------------------------------------
(* InitSpec: initialize_call statement by statement, run by two threads    *)
(* for either call id, while the registry methods that run whole under     *)
(* the lock change the sessions.  A session reference is <<call id, n>>:   *)
(* the n-th CallState object constructed for that id.                      *)

\* From of /voice/incoming; gather_input (line 465) passes no number
InitNumbers == {"+44", None}

\* initialize_call entered without waiting for the lock
InitEnter_unlocked(t, c, from_number) ==
    /\ pc[t] = "idle"
    /\ loc' = [loc EXCEPT ![t] = [call_id |-> c, from_number |-> from_number]]
    /\ Goto(t, "i_check")
    /\ UNCHANGED <<calls, saves, reservations, lock, handled, now, made, stream_calls>>

\* initialize_call, line 131: with self.lock
InitEnter(t, c, from_number) ==
    /\ pc[t] = "idle" /\ lock = NoThread
    /\ lock' = t
    /\ loc' = [loc EXCEPT ![t] = [call_id |-> c, from_number |-> from_number]]
    /\ Goto(t, "i_check")
    /\ UNCHANGED <<calls, saves, reservations, handled, now, made, stream_calls>>

\* initialize_call, line 132: if call_id not in self.calls
InitCheck(t) ==
    /\ pc[t] = "i_check"
    /\ Goto(t, IF loc[t].call_id \notin DOMAIN calls THEN "i_new" ELSE "i_return")
    /\ UNCHANGED <<calls, saves, reservations, lock, loc, handled, now, made, stream_calls>>

\* initialize_call, line 133: self.calls[call_id] = CallState(call_id, from_number)
InitNew(t) ==
    /\ pc[t] = "i_new"
    /\ calls' = Put(calls, loc[t].call_id, NewCallState(loc[t].from_number))
    /\ made' = [made EXCEPT ![loc[t].call_id] = @ + 1]
    /\ Goto(t, "i_return")
    /\ UNCHANGED <<saves, reservations, lock, loc, handled, now, stream_calls>>

\* initialize_call, line 135: return self.calls[call_id]; the with-block ends
InitReturn(t) ==
    /\ pc[t] = "i_return"
    /\ loc' = [loc EXCEPT ![t] =
                  [call_id |-> loc[t].call_id, from_number |-> loc[t].from_number,
                   call_state |-> <<loc[t].call_id, made[loc[t].call_id]>>]]
    /\ lock' = NoThread
    /\ Goto(t, "i_caller")
    /\ UNCHANGED <<calls, saves, reservations, handled, now, made, stream_calls>>

\* the caller (handle_incoming_call, lines 38-45) is done with the reference
InitCaller(t) ==
    /\ pc[t] = "i_caller"
    /\ loc' = [loc EXCEPT ![t] = IdleLoc]
    /\ Goto(t, "idle")
    /\ UNCHANGED <<calls, saves, reservations, lock, handled, now, made, stream_calls>>

InitNext ==
    \/ \E t \in Threads, c \in CallIds, n \in InitNumbers : InitEnter(t, c, n)
    \/ \E t \in Threads : InitCheck(t)
    \/ \E t \in Threads : InitNew(t)
    \/ \E t \in Threads : InitReturn(t)
    \/ \E t \in Threads : InitCaller(t)
    \/ \E c \in CallIds, s \in {"completed", "failed"} :
          lock = NoThread /\ UpdateCallStatus(c, s, "")
    \/ \E c \in CallIds :
          lock = NoThread /\ UpdateCallWithInfo(c, [k \in {"name"} |-> "Kim"])
    \/ \E c \in CallIds :
          lock = NoThread /\ UpdateCallWithTranscription(c, "hello")

InitSpec == Init /\ [][InitNext]_vars

-----------------------------------------------------------------------------
(* ParseSpec: detect_intent, the parsers and one answer of the step flow,  *)
(* each applied once to an utterance, a session and a clock reading drawn  *)
(* from bounded sets.  The sessions cover the parameter domain of          *)
(* detect_intent: every intent, phase and first missing slot it reads.     *)

\* datetime.now() at noon of a date, and at its midnight
noon(y, m, d) == days_from_civil(y, m, d) * SecondsPerDay + 12 * 60 * 60

ParseInstants ==
    { days_from_civil(2025, 1, 1) * SecondsPerDay,     \* a Wednesday, 00:00
      noon(2024, 2, 28),                                \* the eve of a leap day
      noon(2025, 9, 10),
      noon(2025, 12, 31),
      noon(2026, 11, 2) }                               \* a Monday

ParseInstant0 == days_from_civil(2025, 1, 1) * SecondsPerDay

\* a session whose first k slots are set
FilledSession(intent, phase, k, last_intent) ==
    [NewCallState("+44") EXCEPT
        !.intent = intent, !.call_phase = phase, !.last_intent = last_intent,
        !.extracted_info = [s \in SlotNames |->
            IF \E i \in 1..k : Slots[i] = s THEN "set" ELSE None]]

\* a session in the step flow, about to handle the answer of step s
FlowSession(s) ==
    [NewCallState("+44") EXCEPT
        !.intent = "reservation", !.call_phase = "gathering",
        !.reservation_session =
            <<[step |-> s,
               name |-> IF s > 1 THEN "Kim" ELSE None,
               date |-> IF s > 2 THEN "2025-01-02" ELSE None,
               time |-> IF s > 3 THEN "19:00" ELSE None]>>]

ParseSessions ==
    { FilledSession(i, p, k, l) :
        i \in {None, "reservation"}, p \in {"gathering", "confirming"},
        k \in 0..Len(Slots), l \in {None, "hours"} }
    \cup { FlowSession(s) : s \in 1..3 }

ParseThread == "t1"
ParseCall == "CA1"

ParseInit ==
    /\ now \in ParseInstants
    /\ \E cs \in ParseSessions :
          /\ now # ParseInstant0 => cs = FlowSession(2)
          /\ calls = [c \in {ParseCall} |-> cs]
    /\ saves = [c \in CallIds |-> 0]
    /\ reservations = [c \in CallIds |-> 0]
    /\ lock = NoThread
    /\ pc = [t \in Threads |-> "idle"]
    /\ \E text \in ParseTexts :
          loc = [t \in Threads |-> IF t = ParseThread
                                   THEN [speech_result |-> text, current_step |-> 0]
                                   ELSE IdleLoc]
    /\ handled = 0
    /\ made = [c \in CallIds |-> 0]
    /\ stream_calls = << >>

\* intent = response_generator.detect_intent(speech_result, call_state)
DetectIntent(t, c) ==
    /\ pc[t] = "idle"
    /\ loc' = [loc EXCEPT ![t] =
                  [speech_result |-> loc[t].speech_result, current_step |-> 0,
                   intent |-> detect_intent(loc[t].speech_result, calls[c])]]
    /\ pc' = [pc EXCEPT ![t] = "detected"]
    /\ UNCHANGED <<calls, saves, reservations, lock, handled, now, made, stream_calls>>

\* extract_reservation_info_fallback(text), lines 253-260: the values
\* clean_name, parse_date and parse_time return
ExtractFallback(t) ==
    /\ pc[t] = "idle"
    /\ loc' = [loc EXCEPT ![t] =
                  [speech_result |-> loc[t].speech_result, current_step |-> 0,
                   name |-> clean_name(loc[t].speech_result),
                   date |-> parse_date(loc[t].speech_result),
                   time |-> parse_time(loc[t].speech_result)]]
    /\ pc' = [pc EXCEPT ![t] = "extracted"]
    /\ UNCHANGED <<calls, saves, reservations, lock, handled, now, made, stream_calls>>

\* gather_input on the utterance, for a call id the registry knows
HearAnswer(t, c, db_ok) ==
    /\ pc[t] = "idle"
    /\ IF loc[t].speech_result = ""
       THEN UNCHANGED <<calls, saves, reservations>>
       ELSE Answer(calls, c, gather_input(calls[c], loc[t].speech_result, db_ok), db_ok)
    /\ pc' = [pc EXCEPT ![t] = "answered"]
    /\ UNCHANGED <<lock, loc, handled, now, made, stream_calls>>

ParseNext ==
    \/ DetectIntent(ParseThread, ParseCall)
    \/ ExtractFallback(ParseThread)
    \/ \E ok \in BOOLEAN : HearAnswer(ParseThread, ParseCall, ok)

ParseSpec == ParseInit /\ [][ParseNext]_vars

-----------------------------------------------------------------------------
(* AppSpec: the webhook routes of app.py, each on the registry instance it *)
(* uses.  The module-level call_state_manager (app.py, line 46) serves the *)
(* call-started, gather, confirmation and status routes; the audio-stream  *)
(* route goes through audio_processor, whose constructor makes a           *)
(* CallStateManager of its own (audio_stream_processor.py, line 24).       *)

StreamThread == "t1"

\* AudioStreamProcessor.process_audio_stream(call_id, audio_data), lines 66-80,
\* for audio transcribed to a non-empty text, on the registry cm:
\* [calls, call_state, prompt]
stream_response(cm, c, found) ==
    IF found = << >>
    THEN [calls |-> cm, call_state |-> found, prompt |-> "clarification"]
    ELSE [calls |-> Put(cm, c, generate_next_response(found[1])[1]),
          call_state |-> found,
          prompt |-> generate_next_response(found[1])[2]]

process_audio_stream(cm, c, transcription) ==
    stream_response(update_call_with_transcription(cm, c, transcription), c,
                    update_call_with_transcription_result(cm, c, transcription))

\* the thread keeps the call_state the registry returned and the prompt, and
\* whether the registry of the other routes held the call at that moment
Stream(t, c, transcription, r) ==
    /\ stream_calls' = r.calls
    /\ loc' = [loc EXCEPT ![t] = [speech_result |-> transcription, current_step |-> 0,
                                  call_state |-> r.call_state, prompt |-> r.prompt,
                                  created |-> c \in DOMAIN calls]]

\* app.py stream_audio, lines 592-604
StreamAudio(t, c, transcription) ==
    /\ c \in DOMAIN stream_calls => Len(stream_calls[c].transcription_history) < MaxHistory
    /\ IF transcription = ""
       THEN UNCHANGED <<stream_calls, loc>>
       ELSE Stream(t, c, transcription,
                   process_audio_stream(stream_calls, c, transcription))
    /\ UNCHANGED <<calls, saves, reservations, lock, pc, handled, now, made>>

AppNext ==
    \/ \E c \in SpecCallIds, n \in Numbers : IncomingCall(c, n)
    \/ \E c \in SpecCallIds, u \in Utterances, ok \in BOOLEAN : GatherInput(c, u, ok)
    \/ \E c \in SpecCallIds, d \in Digits, s \in ConfirmSpeech, ok \in BOOLEAN :
          ConfirmReservation(c, d, s, ok)
    \/ \E c \in SpecCallIds, s \in StatusEvents, d \in Durations : UpdateCallStatus(c, s, d)
    \/ \E c \in SpecCallIds, t \in Transcriptions : StreamAudio(StreamThread, c, t)

AppSpec == Init /\ [][AppNext]_vars

-----------------------------------------------------------------------------
(* LockSpec: the registry methods statement group by statement group, each *)
(* invoked by either of two threads: the with-block takes the lock, the    *)
(* body runs, process_confirmation calls its collaborators inside the      *)
(* block, and the end of the block gives the lock back.  LockFairSpec adds *)
(* the scheduling: a thread that can run does run, a collaborator call     *)
(* returns, and a thread waiting for a lock that is free again and again   *)
(* gets it.                                                                *)

LockCall == "CA1"

\* the invocations: method and argument
Invocations ==
    {<<"initialize_call", "+44">>, <<"get_call_state", None>>,
     <<"update_call_with_transcription", "hello">>,
     <<"update_call_with_info", "all">>,
     <<"process_confirmation", "1">>, <<"process_confirmation", "2">>,
     <<"update_call_status", "completed">>, <<"update_call_status", "failed">>,
     <<"cleanup_completed_calls", 0>>, <<"get_early_disconnection_stats", None>>}

\* a dict with the six slots
AllSlotsInfo ==
    [k \in SlotNames |-> IF k = "name" THEN "Kim" ELSE IF k = "date" THEN "TOMORROW"
                         ELSE IF k = "time" THEN "15:00" ELSE IF k = "party_size" THEN "2"
                         ELSE IF k = "phone" THEN "555" ELSE "k@x.io"]

\* the registry after the body of method op with argument arg
registry_method(cm, op, arg) ==
    IF op = "initialize_call" THEN initialize_call(cm, LockCall, arg)
    ELSE IF op = "update_call_with_transcription"
    THEN update_call_with_transcription(cm, LockCall, arg)
    ELSE IF op = "update_call_with_info" THEN update_call_with_info(cm, LockCall, AllSlotsInfo)
    ELSE IF op = "process_confirmation" THEN process_confirmation(cm, LockCall, arg)
    ELSE IF op = "update_call_status" THEN update_call_status(cm, LockCall, arg, "")
    ELSE IF op = "cleanup_completed_calls" THEN cleanup_completed_calls(cm, arg)
    ELSE cm

\* a with-block that keeps the lock when process_confirmation returns
LockRelease_leaking(t) ==
    /\ pc[t] = "l_release"
    /\ lock' = IF loc[t].op = "process_confirmation" THEN lock ELSE NoThread
    /\ loc' = [loc EXCEPT ![t] = IdleLoc]
    /\ Goto(t, "idle")
    /\ UNCHANGED <<calls, saves, reservations, handled, now, made, stream_calls>>

\* a thread calls a registry method
LockInvoke(t, op, arg) ==
    /\ pc[t] = "idle"
    /\ (op = "update_call_with_transcription" /\ LockCall \in DOMAIN calls)
           => Len(calls[LockCall].transcription_history) < MaxHistory
    /\ loc' = [loc EXCEPT ![t] = [speech_result |-> "", current_step |-> 0,
                                  op |-> op, arg |-> arg]]
    /\ Goto(t, "l_wait")
    /\ UNCHANGED <<calls, saves, reservations, lock, handled, now, made, stream_calls>>

\* with self.lock: the thread waits until the lock is free and takes it
LockAcquire(t) ==
    /\ pc[t] = "l_wait" /\ lock = NoThread
    /\ lock' = t
    /\ Goto(t, "l_body")
    /\ UNCHANGED <<calls, saves, reservations, loc, handled, now, made, stream_calls>>

\* the statements of the with-block on self.calls and the session
LockBody(t) ==
    /\ pc[t] = "l_body"
    /\ calls' = registry_method(calls, loc[t].op, loc[t].arg)
    /\ Goto(t, IF loc[t].op = "process_confirmation" /\ LockCall \in DOMAIN calls
               THEN "l_collaborator" ELSE "l_release")
    /\ UNCHANGED <<saves, reservations, lock, loc, handled, now, made, stream_calls>>

\* process_confirmation, lines 205-206 and 210-211: the calls of
\* response_generator and tts_handler return
LockCollaborator(t) ==
    /\ pc[t] = "l_collaborator"
    /\ Goto(t, "l_release")
    /\ UNCHANGED <<calls, saves, reservations, lock, loc, handled, now, made, stream_calls>>

\* the with-block ends, by a return or by its last statement
LockRelease(t) ==
    /\ pc[t] = "l_release"
    /\ lock' = NoThread
    /\ loc' = [loc EXCEPT ![t] = IdleLoc]
    /\ Goto(t, "idle")
    /\ UNCHANGED <<calls, saves, reservations, handled, now, made, stream_calls>>

LockNext ==
    \/ \E t \in Threads, i \in Invocations : LockInvoke(t, i[1], i[2])
    \/ \E t \in Threads : LockAcquire(t)
    \/ \E t \in Threads : LockBody(t)
    \/ \E t \in Threads : LockCollaborator(t)
    \/ \E t \in Threads : LockRelease(t)

LockSpec == Init /\ [][LockNext]_vars

LockFairness ==
    \A t \in Threads :
        /\ SF_vars(LockAcquire(t))
        /\ WF_vars(LockBody(t))
        /\ WF_vars(LockCollaborator(t))
        /\ WF_vars(LockRelease(t))

LockFairSpec == LockSpec /\ LockFairness


-----------------------------------------------------------------------------
(* CoreSpec: the registry methods and generate_next_response alone, each   *)
(* run whole, without the webhook handlers of app.py that write to the     *)
(* session they were handed.                                               *)

CoreNext ==
    \/ \E c \in SpecCallIds, n \in Numbers : InitializeCall(c, n)
    \/ \E c \in SpecCallIds : GetCallState(c)
    \/ \E c \in SpecCallIds, t \in Transcriptions : UpdateCallWithTranscription(c, t)
    \/ \E c \in SpecCallIds, i \in InfoInputs : UpdateCallWithInfo(c, i)
    \/ \E c \in SpecCallIds, d \in Digits : ProcessConfirmation(c, d)
    \/ \E c \in SpecCallIds, s \in StatusEvents, d \in Durations : UpdateCallStatus(c, s, d)
    \/ \E a \in MaxAges : CleanupCompletedCalls(a)
    \/ GetEarlyDisconnectionStats
    \/ \E c \in SpecCallIds : GenerateNextResponse(c)

CoreSpec == Init /\ [][CoreNext]_vars

-----------------------------------------------------------------------------
(* Claims C1 - C10                                                         *)

Known(c) == c \in DOMAIN calls /\ c \in DOMAIN calls'

Min(a, b) == IF a < b THEN a ELSE b

\* C1: once a session's status is completed, failed or early_disconnected,
\* no later operation changes that status.
C1_TerminalStatusIsFinal ==
    [][\A c \in CallIds :
          Known(c) /\ calls[c].status \in TerminalStatuses
              => calls'[c].status = calls[c].status]_vars

\* C2: a session whose status is terminal keeps its phase and its six slot
\* values under every subsequent operation.
C2_TerminalSessionIsFrozen ==
    [][\A c \in CallIds :
          Known(c) /\ calls[c].status \in TerminalStatuses
              => /\ calls'[c].call_phase = calls[c].call_phase
                 /\ calls'[c].extracted_info = calls[c].extracted_info]_vars

\* The phase edges of the phase machine; greeting or gathering -> completed
\* is an edge only for the call-ended rule of update_call_status.
PhaseEdges ==
    { <<"greeting", "gathering">>, <<"gathering", "confirming">>,
      <<"confirming", "completed">>, <<"confirming", "gathering">>,
      <<"greeting", "early_disconnected">>, <<"gathering", "early_disconnected">>,
      <<"confirming", "early_disconnected">>,
      <<"greeting", "failed">>, <<"gathering", "failed">>, <<"confirming", "failed">> }

\* C3: every operation leaves the phase unchanged or moves it along an edge
\* of the phase machine; greeting or gathering reaches completed only by the
\* call-ended event.
C3_PhaseFollowsEdges ==
    [][\A c \in CallIds :
          Known(c) /\ calls'[c].call_phase # calls[c].call_phase
              => \/ <<calls[c].call_phase, calls'[c].call_phase>> \in PhaseEdges
                 \/ /\ calls[c].call_phase \in {"greeting", "gathering"}
                    /\ calls'[c].call_phase = "completed"
                    /\ \E d \in Durations : UpdateCallStatus(c, "completed", d)]_vars

\* the statement groups that write a field of the session
SessionWritePcs == {"ic_greet", "g_request", "g_general", "p_field", "p_step"}

\* the statement groups that are a call to a collaborator
\* (speech synthesis, the database)
CollaboratorPcs == {"tts", "p_save", "pc_tts"}

\* C4: a thread that is about to write a field of a live session holds the
\* registry lock.
C4_WritesHoldTheLock ==
    \A t \in Threads : pc[t] \in SessionWritePcs => lock = t

\* C5: once the concurrent step-by-step answers for a call have all been
\* handled, the session is as after handling them one after another: the
\* step advanced once per answer (up to 4), the second answer's date was not
\* lost, and the reservation was saved at most once.
C5_ConcurrentAnswersSerialize ==
    ( /\ \A t \in Threads : pc[t] = "idle"
      /\ ConcCall \in DOMAIN calls
      /\ calls[ConcCall].reservation_session # << >> )
    => LET rs == calls[ConcCall].reservation_session[1]
       IN  /\ rs.step = Min(4, 1 + handled)
           /\ handled >= 2 => rs.date # None
           /\ saves[ConcCall] <= 1

\* C6: a thread inside a collaborator call does not hold the registry lock.
C6_NoCollaboratorCallUnderLock ==
    \A t \in Threads : pc[t] \in CollaboratorPcs => lock # t

\* a digits event with digit "1" (or a spoken yes): the confirmation handler
\* of app.py or the one of twilio_handler.py
AffirmationStep(c) ==
    \/ ProcessConfirmation(c, "1")
    \/ \E d \in Digits, s \in ConfirmSpeech, ok \in BOOLEAN :
          normalize_digit(d, s) = "1" /\ ConfirmReservation(c, d, s, ok)

\* C7: handling digit "1" for a session in phase confirming with all slots
\* set makes the phase completed and emits exactly one persistence request.
C7_AffirmationCompletesAndPersistsOnce ==
    [][\A c \in SpecCallIds :
          ( /\ c \in DOMAIN calls
            /\ calls[c].call_phase = "confirming"
            /\ has_complete_info(calls[c])
            /\ AffirmationStep(c) )
          => /\ calls'[c].call_phase = "completed"
             /\ saves'[c] = saves[c] + 1]_vars

\* C8: the persistence request is issued at most once per call id and only
\* as part of a confirming -> completed transition.
C8_PersistedOnceOnCompletion ==
    [][\A c \in CallIds :
          saves'[c] # saves[c]
          => /\ saves[c] = 0 /\ saves'[c] = 1
             /\ Known(c)
             /\ calls[c].call_phase = "confirming"
             /\ calls'[c].call_phase = "completed"]_vars

\* C9: update_call_status(id, "completed", d) on an active session makes
\* status and phase early_disconnected exactly when the phase is greeting or
\* gathering and some slot is unset, and completed in every other case.
C9_CallEndedClassification ==
    [][\A c \in SpecCallIds, d \in Durations :
          ( /\ c \in DOMAIN calls
            /\ calls[c].status = "active"
            /\ UpdateCallStatus(c, "completed", d) )
          => LET early == /\ calls[c].call_phase \in {"greeting", "gathering"}
                          /\ \E k \in SlotNames : calls[c].extracted_info[k] = None
                 outcome == IF early THEN "early_disconnected" ELSE "completed"
             IN  /\ calls'[c].status = outcome
                 /\ calls'[c].call_phase = outcome]_vars

\* a call ended in gathering with date and time unset: early_disconnected
C9_Witness ==
    \E c \in DOMAIN calls :
        /\ calls[c].status = "early_disconnected"
        /\ calls[c].call_phase = "early_disconnected"
        /\ calls[c].greeting_played
        /\ calls[c].extracted_info["name"] # None
        /\ calls[c].extracted_info["date"] = None
        /\ calls[c].extracted_info["time"] = None

-----------------------------------------------------------------------------
(* Claims C11 - C20                                                        *)

\* a step of thread t inside initialize_call
InitStep(t) ==
    \/ \E c \in CallIds, n \in InitNumbers : InitEnter(t, c, n)
    \/ InitCheck(t)
    \/ InitNew(t)
    \/ InitReturn(t)

\* C11: initialize_call for an id already in the registry changes no field
\* of the session; under every interleaving of concurrent initialize_call
\* calls one CallState object is constructed per id, the registry holds it,
\* and every caller holds a reference to that same object.
C11_InitializeCallIsIdempotent ==
    /\ [](\A c \in CallIds :
             /\ made[c] = IF c \in DOMAIN calls THEN 1 ELSE 0
             /\ \A t \in Threads :
                    pc[t] = "i_caller" /\ loc[t].call_id = c
                        => loc[t].call_state = <<c, 1>> /\ c \in DOMAIN calls)
    /\ [][\A c \in CallIds :
             c \in DOMAIN calls /\ (\E t \in Threads : InitStep(t))
                 => c \in DOMAIN calls' /\ calls'[c] = calls[c]]_vars

\* both threads hold the session of one id, the second call made with
\* another caller number and after the call had failed
C11_Witness ==
    \E c \in DOMAIN calls :
        /\ \A t \in Threads : pc[t] = "i_caller" /\ loc[t].call_id = c
        /\ loc["t1"].from_number # loc["t2"].from_number
        /\ calls[c].status = "failed"
        /\ calls[c].extracted_info["name"] = "Kim"

\* C12: cleanup_completed_calls(max_age) removes exactly the sessions whose
\* status is completed, failed or early_disconnected and whose last update
\* is more than max_age seconds old; no active session is removed, every
\* session that stays keeps all its fields, and get_call_state of a removed
\* id returns None.
C12_SweepRemovesOldTerminalSessions ==
    [][\A a \in MaxAges :
          CleanupCompletedCalls(a)
          => LET removed == DOMAIN calls \ DOMAIN calls'
             IN  /\ DOMAIN calls' \subseteq DOMAIN calls
                 /\ removed = {c \in DOMAIN calls :
                                  /\ calls[c].status \in {"completed", "failed",
                                                           "early_disconnected"}
                                  /\ now - calls[c].last_update > a}
                 /\ \A c \in removed : calls[c].status # "active"
                 /\ \A c \in DOMAIN calls' : calls'[c] = calls[c]
                 /\ \A c \in removed : get_call_state(calls', c) = << >>]_vars

\* both sessions were last updated more than a second ago; the sweep with
\* max_age 1 removes the failed one and keeps the active one
C12_Witness ==
    /\ DOMAIN calls = {"CA1", "CA2"}
    /\ calls["CA1"].status = "failed"
    /\ calls["CA2"].status = "active"
    /\ now - calls["CA1"].last_update > 1
    /\ now - calls["CA2"].last_update > 1
    /\ DOMAIN cleanup_completed_calls(calls, 1) = {"CA2"}

\* C13: get_early_disconnection_stats counts the sessions in the registry
\* whose status is early_disconnected and lists exactly their ids, once
\* each; an id that is not in the registry (never created, or swept) is not
\* listed; with no such session the count and the average duration are 0.
C13_StatsCountEarlyDisconnections ==
    LET stats == get_early_disconnection_stats(calls)
        listed == {stats.early_disconnected_calls[i] :
                      i \in 1..Len(stats.early_disconnected_calls)}
        early == {c \in DOMAIN calls : calls[c].status = "early_disconnected"}
    IN  /\ stats.total_early_disconnections = Cardinality(early)
        /\ listed = early
        /\ Len(stats.early_disconnected_calls) = Cardinality(early)
        /\ early = {} => /\ stats.total_early_disconnections = 0
                         /\ stats.average_duration_seconds = 0

\* CA2 hung up early after two seconds and is the one session counted; CA1
\* is in the registry with another status
C13_Witness ==
    /\ "CA1" \in DOMAIN calls
    /\ get_early_disconnection_stats(calls) =
           [ total_early_disconnections |-> 1,
             average_duration_seconds |-> 200,
             early_disconnected_calls |-> <<"CA2">> ]

\* C14: update_call_with_transcription(id, text) with a non-empty text
\* appends text to the history of the session of a known id, leaves the
\* earlier elements and every other session as they were and returns the
\* session; for an unknown id it returns None and leaves the registry as
\* it was.
C14_TranscriptionIsAppended ==
    \A c \in CallIds, text \in Transcriptions \ {""} :
        LET after == update_call_with_transcription(calls, c, text)
            result == update_call_with_transcription_result(calls, c, text)
        IN  IF c \in DOMAIN calls
            THEN /\ DOMAIN after = DOMAIN calls
                 /\ after[c].transcription_history =
                        calls[c].transcription_history \o <<text>>
                 /\ \A d \in DOMAIN calls \ {c} : after[d] = calls[d]
                 /\ result = <<after[c]>>
            ELSE /\ result = << >>
                 /\ after = calls

\* a second transcription was appended to the history of CA1 while CA2 has
\* none, and a further one would be the third
C14_Witness ==
    /\ DOMAIN calls = {"CA1", "CA2"}
    /\ calls["CA1"].transcription_history = <<"hello", "hello">>
    /\ calls["CA2"].transcription_history = << >>

\* C15: for a call id that is not in the registry, get_call_state,
\* update_call_with_transcription, update_call_with_info and
\* update_call_status return None and process_confirmation returns the
\* empty response; none of them raises, adds a session or changes one.
C15_UnknownIdIsANoOp ==
    \A c \in CallIds \ DOMAIN calls :
        /\ get_call_state(calls, c) = << >>
        /\ \A t \in Transcriptions :
               /\ update_call_with_transcription_result(calls, c, t) = << >>
               /\ update_call_with_transcription(calls, c, t) = calls
        /\ \A i \in InfoInputs :
               /\ update_call_with_info_result(calls, c, i) = << >>
               /\ update_call_with_info(calls, c, i) = calls
        /\ \A d \in Digits :
               /\ confirmation_response(calls, c, d) = <<"empty", "none">>
               /\ process_confirmation(calls, c, d) = calls
        /\ \A s \in StatusEvents, d \in Durations :
               /\ update_call_status_result(calls, c, s, d) = << >>
               /\ update_call_status(calls, c, s, d) = calls

\* CA1 is not in the registry while CA2 is, with a history, two seconds
\* after it was created
C15_Witness ==
    /\ DOMAIN calls = {"CA2"}
    /\ calls["CA2"].transcription_history # << >>
    /\ now - calls["CA2"].start_time = 2

\* C16: when the persistence request of an event fails, the handler
\* answers with the apology prompt and a directive that keeps the call open,
\* and the session keeps the phase and the step it had before the event.
C16_FailedSaveCanBeRetried ==
    [][\A c \in SpecCallIds :
          /\ \A u \in Utterances :
                ( /\ c \in DOMAIN calls
                  /\ u # "" /\ ~is_reservation_request(u)
                  /\ in_reservation_flow(calls[c])
                  /\ gather_input(calls[c], u, FALSE).saved = 1
                  /\ GatherInput(c, u, FALSE) )
                => LET r == gather_input(calls[c], u, FALSE)
                   IN  /\ r.prompt = "save_error"
                       /\ r.directive # "hangup"
                       /\ calls'[c].call_phase = calls[c].call_phase
                       /\ calls'[c].reservation_session[1].step =
                              calls[c].reservation_session[1].step
          /\ \A d \in Digits, s \in ConfirmSpeech :
                ( /\ c \in DOMAIN calls
                  /\ confirm_reservation(calls, c, d, s, FALSE).persisted = 1
                  /\ ConfirmReservation(c, d, s, FALSE) )
                => LET r == confirm_reservation(calls, c, d, s, FALSE)
                   IN  /\ r.prompt = "save_error"
                       /\ r.directive # "hangup"
                       /\ calls'[c].call_phase = calls[c].call_phase]_vars

\* C17: no operation sets a slot that holds a value back to None:
\* update_call_with_info skips the None and "" values it is handed, and
\* process_confirmation with a digit other than "1" on a session in
\* confirming leaves the six slot values as they were.
C17_SlotsAreNeverUnset ==
    [][\A c \in CallIds :
          Known(c)
          => /\ \A k \in SlotNames :
                    calls[c].extracted_info[k] # None
                        => calls'[c].extracted_info[k] # None
             /\ \A i \in InfoInputs :
                    UpdateCallWithInfo(c, i)
                        => \A k \in SlotNames :
                              calls'[c].extracted_info[k] # calls[c].extracted_info[k]
                                  => /\ k \in DOMAIN i /\ i[k] \notin {None, ""}
                                     /\ calls'[c].extracted_info[k] = i[k]
             /\ \A d \in Digits \ {"1"} :
                    calls[c].call_phase = "confirming" /\ ProcessConfirmation(c, d)
                        => calls'[c].extracted_info = calls[c].extracted_info]_vars

\* a session with all six slots set that is back in gathering with no
\* confirmation pending
C17_Witness ==
    \E c \in DOMAIN calls :
        /\ has_complete_info(calls[c])
        /\ calls[c].extracted_info["name"] = "Kim"
        /\ calls[c].call_phase = "gathering"
        /\ ~calls[c].confirmation_pending
        /\ calls[c].status = "active"

\* C18: a digits event for a session in confirming whose input is neither
\* "1" or a spoken yes nor "2" or a spoken no leaves the phase confirming
\* and the slots as they were and is answered with the confirmation or the
\* clarification prompt.
C18_InvalidInputKeepsConfirming ==
    \A c \in SpecCallIds :
        (c \in DOMAIN calls /\ calls[c].call_phase = "confirming")
        => /\ \A d \in Digits \ {"1", "2"} :
                  /\ confirmation_response(calls, c, d)[2] \in {"confirmation", "clarification"}
                  /\ ~ ENABLED ( /\ ProcessConfirmation(c, d)
                                 /\ \/ calls'[c].call_phase # "confirming"
                                    \/ calls'[c].extracted_info # calls[c].extracted_info )
           /\ \A d \in Digits, s \in ConfirmSpeech, ok \in BOOLEAN :
                  normalize_digit(d, s) \notin {"1", "2"}
                  => /\ confirm_reservation(calls, c, d, s, ok).prompt
                            \in {"confirmation", "clarification"}
                     /\ ~ ENABLED ( /\ ConfirmReservation(c, d, s, ok)
                                    /\ \/ calls'[c].call_phase # "confirming"
                                       \/ calls'[c].extracted_info # calls[c].extracted_info )

\* C19: when digit "2" or a spoken no is handled for a session in
\* confirming, the phase of the session becomes gathering.
C19_RejectionReturnsToGathering ==
    \A c \in SpecCallIds :
        (c \in DOMAIN calls /\ calls[c].call_phase = "confirming")
        => /\ ~ ENABLED ( /\ ProcessConfirmation(c, "2")
                          /\ calls'[c].call_phase # "gathering" )
           /\ \A d \in Digits, s \in ConfirmSpeech, ok \in BOOLEAN :
                  normalize_digit(d, s) = "2"
                  => ~ ENABLED ( /\ ConfirmReservation(c, d, s, ok)
                                 /\ calls'[c].call_phase # "gathering" )

\* C20: a session leaves greeting for gathering only with greeting_played
\* set: a session whose phase is not greeting has greeting_played = TRUE.
C20_GreetingPlayedBeforeGathering ==
    /\ [](\A c \in DOMAIN calls :
             calls[c].call_phase # "greeting" => calls[c].greeting_played)
    /\ [][\A c \in CallIds :
             ( /\ Known(c)
               /\ calls[c].call_phase = "greeting"
               /\ calls'[c].call_phase = "gathering" )
             => calls'[c].greeting_played]_vars

-----------------------------------------------------------------------------
(* Claims C21 - C30                                                        *)

\* the part of a session the claim lets detect_intent depend on
SameSnapshot(a, b) ==
    /\ a.intent = b.intent
    /\ a.call_phase = b.call_phase
    /\ {s \in SlotNames : a.extracted_info[s] = None}
           = {s \in SlotNames : b.extracted_info[s] = None}

\* C21: detect_intent is a pure function of the text and the session
\* snapshot: the intent it returns for a session is the intent it returns
\* for the same text and every session that agrees with it on the intent,
\* the phase and the set of unset slots, and the call leaves every field of
\* the session (and of the registry) as it was.
C21_DetectIntentIsPure ==
    [][\A t \in Threads : \A c \in DOMAIN calls :
          DetectIntent(t, c) =>
             /\ calls' = calls
             /\ \A other \in ParseSessions :
                   SameSnapshot(calls[c], other) =>
                      loc'[t].intent = detect_intent(loc[t].speech_result, other)]_vars

\* detect_intent has answered inside a reservation conversation for a
\* session that also carries the intent of an earlier turn
C21_Witness ==
    /\ pc[ParseThread] = "detected"
    /\ loc[ParseThread].intent = "providing_time"
    /\ calls[ParseCall].intent = "reservation"
    /\ calls[ParseCall].last_intent = "hours"

\* a string HH:MM with hour 00..23 and minute 00..59
IsValidTime(s) ==
    /\ Len(s) = 5
    /\ Ch(s, 3) = ":"
    /\ isdigit(SubSeq(s, 1, 2)) /\ isdigit(SubSeq(s, 4, 5))
    /\ int_of(SubSeq(s, 1, 2)) <= 23
    /\ int_of(SubSeq(s, 4, 5)) <= 59

\* the session of the call is in the step flow and has handled the answer
\* of step s
Answered(s) ==
    /\ pc[ParseThread] = "answered"
    /\ calls[ParseCall].reservation_session # << >>
    /\ calls[ParseCall].reservation_session[1].step = s + 1
    /\ loc[ParseThread].speech_result # ""
    /\ ~is_reservation_request(loc[ParseThread].speech_result)

\* C22: for every text, the empty text and a number with a minute part
\* 00..99 included, parse_time and _parse_time return a string HH:MM with
\* hour 00..23 and minute 00..59.
C22_TimeIsAlwaysValid ==
    /\ pc[ParseThread] = "extracted" => IsValidTime(loc[ParseThread].time)
    /\ Answered(3) => IsValidTime(calls[ParseCall].reservation_session[1].time)

\* a string YYYY-MM-DD that names a calendar date not earlier than the
\* date of datetime.now()
IsDateFromToday(s) ==
    /\ Len(s) = 10
    /\ Ch(s, 5) = "-" /\ Ch(s, 8) = "-"
    /\ isdigit(SubSeq(s, 1, 4)) /\ isdigit(SubSeq(s, 6, 7)) /\ isdigit(SubSeq(s, 9, 10))
    /\ LET y == int_of(SubSeq(s, 1, 4))
           m == int_of(SubSeq(s, 6, 7))
           d == int_of(SubSeq(s, 9, 10))
       IN  is_valid_date(y, m, d) /\ days_from_civil(y, m, d) >= today_days

\* C23: for every text and every reference date, parse_date and _parse_date
\* return a valid calendar date YYYY-MM-DD that is not earlier than the
\* reference date, a month name followed by a day number included.
C23_DateIsValidAndNotPast ==
    /\ pc[ParseThread] = "extracted" => IsDateFromToday(loc[ParseThread].date)
    /\ Answered(2) => IsDateFromToday(calls[ParseCall].reservation_session[1].date)

\* the named periods of the day and the fixed time of each
FixedTimes ==
    [p \in {"morning", "afternoon", "evening", "night", "lunch", "dinner", "breakfast"} |->
        IF p = "morning" THEN "11:00"
        ELSE IF p = "afternoon" THEN "15:00"
        ELSE IF p = "lunch" THEN "13:00"
        ELSE IF p = "breakfast" THEN "09:00"
        ELSE "19:00"]

PeriodsIn(text) == {p \in DOMAIN FixedTimes : contains(lower(text), p)}

\* C24: for an utterance that contains a named period, both time parsers
\* return the fixed time of a period it contains (morning 11:00, afternoon
\* 15:00, evening or night 19:00, lunch 13:00, dinner 19:00, breakfast
\* 09:00), whatever numbers the utterance also contains; and the utterance
\* "morning" handled as the answer of the time step sets the time of the
\* reservation to "11:00".
C24_NamedPeriodComesFirst ==
    LET text == loc[ParseThread].speech_result
        times == {FixedTimes[p] : p \in PeriodsIn(text)}
    IN  /\ pc[ParseThread] = "extracted" /\ times # {} => loc[ParseThread].time \in times
        /\ Answered(3) /\ times # {} =>
              calls[ParseCall].reservation_session[1].time \in times
        /\ Answered(3) /\ text = "morning" =>
              calls[ParseCall].reservation_session[1].time = "11:00"

\* an utterance with a named period and a number has been parsed
C24_Witness ==
    /\ pc[ParseThread] = "extracted"
    /\ loc[ParseThread].speech_result = "in the afternoon at 2"
    /\ loc[ParseThread].time = "15:00"

\* the markers the pattern (a\.?m\.?|p\.?m\.?|am|pm) accepts
PmMarkers == {"pm", "p.m.", "p.m", "pm."}
AmMarkers == {"am", "a.m.", "a.m", "am."}

\* the hour the claim gives for the hour h of a 12-hour clock and a marker
ClockHour(h, marker) ==
    IF marker \in PmMarkers THEN (h % 12) + 12
    ELSE IF marker \in AmMarkers THEN h % 12
    ELSE IF h <= 6 THEN h + 12 ELSE h

\* the utterance names no period and its first number is an hour 1..12
StartsWithClockHour(text) ==
    /\ PeriodsIn(text) = {}
    /\ has_digit(text)
    /\ LET token == digits_at(text, first_digit(text), Len(text))
       IN  Len(token) <= 2 /\ int_of(token) \in 1..12

\* C25: for an utterance with no named period whose first number is an hour
\* h in 1..12, both time parsers return the hour (h mod 12) + 12 when a pm
\* marker the pattern accepts follows, h mod 12 when an am marker follows,
\* and without a marker h + 12 for h in 1..6 and h for h in 7..12.
C25_TwelveHourClockConversion ==
    LET text == strip(lower(loc[ParseThread].speech_result))
        m == time_match(text, 2)
        expected == pad2(ClockHour(int_of(m.hour), m.am_pm))
    IN  StartsWithClockHour(text) =>
           /\ pc[ParseThread] = "extracted" => SubSeq(loc[ParseThread].time, 1, 2) = expected
           /\ Answered(3) =>
                 SubSeq(calls[ParseCall].reservation_session[1].time, 1, 2) = expected

\* the day number of the date a string YYYY-MM-DD names
DateDays(s) ==
    days_from_civil(int_of(SubSeq(s, 1, 4)), int_of(SubSeq(s, 6, 7)), int_of(SubSeq(s, 9, 10)))

MonthNames == {Months[i][1] : i \in 1..Len(Months)}

\* C26: parse_date applies its rules in the order today, tomorrow, weekday
\* name, month name with day, default.  A text with "today" gives the
\* reference date; otherwise one with "tomorrow" gives the day after it;
\* otherwise one with a weekday name gives the date 1 to 7 days after the
\* reference date that falls on that weekday, and 8 to 14 days after it
\* when "next" precedes the weekday; a text with none of these and no month
\* name gives the reference date.
C26_DateRulesInOrder ==
    pc[ParseThread] = "extracted" =>
        LET text == lower(loc[ParseThread].speech_result)
            ahead == DateDays(loc[ParseThread].date) - today_days
        IN  IF contains(text, "today") THEN ahead = 0
            ELSE IF contains(text, "tomorrow") THEN ahead = 1
            ELSE IF \E i \in 1..Len(Weekdays) : contains(text, Weekdays[i])
            THEN \E i \in 1..Len(Weekdays) :
                    /\ contains(text, Weekdays[i])
                    /\ weekday(today_days + ahead) = i - 1
                    /\ IF contains(text, "next " \o Weekdays[i])
                       THEN ahead \in 8..14 ELSE ahead \in 1..7
            ELSE ~contains_any(text, MonthNames) => ahead = 0

\* "monday" has been parsed on a Monday: the date is a week later
C26_Witness ==
    /\ pc[ParseThread] = "extracted"
    /\ now = noon(2026, 11, 2)
    /\ loc[ParseThread].speech_result = "monday"
    /\ loc[ParseThread].date = "2026-11-09"

\* at most two words, each alphabetic, title-cased
IsPlainName(name) ==
    /\ Len(split(name)) <= 2
    /\ \A i \in 1..Len(split(name)) : isalpha(split(name)[i])
    /\ name = title(name)

\* C27: when the utterance contains one of the prefixes "my name is",
\* "i'm", "i am", "name is", "call me" (in any case), the name parsers
\* return at most two tokens, each alphabetic, title-cased and without
\* punctuation; no token that is not alphabetic is part of the name.
C27_IntroducedNameIsAlphabetic ==
    contains_any(lower(loc[ParseThread].speech_result), IntroductionPhrases) =>
        /\ pc[ParseThread] = "extracted" => IsPlainName(loc[ParseThread].name)
        /\ Answered(1) => IsPlainName(calls[ParseCall].reservation_session[1].name)

\* the first slot of the fixed order that is unset
FirstUnset(cs) == Slots[SetMin({i \in 1..Len(Slots) : cs.extracted_info[Slots[i]] = None})]

\* C28: on a session in gathering with at least one unset slot,
\* generate_next_response returns the request prompt of the first unset
\* slot in the order name, date, time, party_size, phone, email, and leaves
\* the phase gathering and every slot (the whole session) as it was.
C28_AsksForFirstUnsetSlot ==
    \A c \in DOMAIN calls :
        LET cs == calls[c]
        IN  (cs.call_phase = "gathering" /\ \E k \in SlotNames : cs.extracted_info[k] = None) =>
               /\ generate_next_response(cs)[2] = "info_request_" \o FirstUnset(cs)
               /\ generate_next_response(cs)[1].call_phase = "gathering"
               /\ generate_next_response(cs)[1].extracted_info = cs.extracted_info
               /\ generate_next_response(cs)[1] = cs

\* a session in gathering whose name is set and whose date, the first of
\* several unset slots, is asked for
C28_Witness ==
    \E c \in DOMAIN calls :
        /\ calls[c].call_phase = "gathering"
        /\ calls[c].extracted_info["name"] # None
        /\ calls[c].extracted_info["date"] = None
        /\ calls[c].extracted_info["phone"] = None
        /\ generate_next_response(calls[c])[2] = "info_request_date"

\* C29: generate_next_response moves a session from gathering to
\* confirming if and only if none of the six slots is unset, and then it
\* sets confirmation_pending and changes no slot.
C29_ConfirmingIffAllSlotsSet ==
    \A c \in DOMAIN calls :
        LET cs == calls[c]
            after == generate_next_response(cs)[1]
        IN  cs.call_phase = "gathering" =>
               /\ after.call_phase = "confirming"
                     <=> \A k \in SlotNames : cs.extracted_info[k] # None
               /\ after.call_phase # "confirming" => after.call_phase = "gathering"
               /\ after.call_phase = "confirming" =>
                     /\ after.confirmation_pending
                     /\ after.extracted_info = cs.extracted_info

\* generate_next_response has moved a session with six set slots to
\* confirming
C29_Witness ==
    \E c \in DOMAIN calls :
        /\ calls[c].call_phase = "confirming"
        /\ calls[c].confirmation_pending
        /\ \A k \in SlotNames : calls[c].extracted_info[k] # None
        /\ calls[c].status = "active"

\* C30: detect_intent returns end_conversation for every utterance that
\* contains a conversation-ending phrase, whatever the intent, the phase
\* and the unset slots of the session are and whatever introduction or
\* topic keyword the utterance also contains.
C30_EndingPhraseWins ==
    (/\ pc[ParseThread] = "detected"
     /\ contains_any(lower(loc[ParseThread].speech_result), EndingPhrases))
        => loc[ParseThread].intent = "end_conversation"

\* an utterance that introduces a name and ends the conversation has been
\* classified inside a reservation conversation
C30_Witness ==
    /\ pc[ParseThread] = "detected"
    /\ loc[ParseThread].speech_result = "my name is Kim, that's it"
    /\ calls[ParseCall].intent = "reservation"
    /\ calls[ParseCall].call_phase = "gathering"
    /\ loc[ParseThread].intent = "end_conversation"

-----------------------------------------------------------------------------
(* Claims C31 - C40                                                        *)

\* the topics in the order of the claim, each with the keywords of its test
TopicKeywords ==
    << <<"reservation", {"book", "reserve", "reservation", "table", "booking",
                         "make a reservation"}>>,
       <<"hours", {"hours", "open", "close", "time", "operating", "when"}>>,
       <<"menu", {"menu", "food", "dish", "eat", "special", "recommend",
                  "what do you have"}>>,
       <<"halal", {"halal"}>>,
       <<"vegan", {"vegan", "vegetarian", "plant-based"}>>,
       <<"parking", {"parking", "car", "drive", "park"}>>,
       <<"location", {"location", "address", "where", "find", "directions"}>>,
       <<"contact", {"phone", "call", "contact", "number", "reach you"}>>,
       <<"price", {"price", "cost", "expensive", "cheap", "how much"}>> >>

\* the topics of which the text contains a keyword, by their place in the order
TopicsIn(text) ==
    {i \in 1..Len(TopicKeywords) : contains_any(lower(text), TopicKeywords[i][2])}

FirstTopic(text) ==
    IF TopicsIn(text) = {} THEN "general" ELSE TopicKeywords[SetMin(TopicsIn(text))][1]

\* no ending phrase is in the text and no rule of the reservation
\* conversation returns for it
NoEarlierRule(text, cs) ==
    /\ ~contains_any(lower(text), EndingPhrases)
    /\ cs.intent = "reservation" => providing_intent(lower(text), cs) = ""

\* C31: when no ending phrase and no reservation-context rule applies,
\* detect_intent returns the first topic, in the order reservation, hours,
\* menu, halal, vegan, parking, location, contact, price, of which the
\* utterance contains a keyword, and general when it contains none; with
\* keywords of two topics the earlier topic is returned.
C31_FirstTopicInOrder ==
    (/\ pc[ParseThread] = "detected"
     /\ NoEarlierRule(loc[ParseThread].speech_result, calls[ParseCall]))
        => loc[ParseThread].intent = FirstTopic(loc[ParseThread].speech_result)

\* an utterance with a keyword of the reservation topic and one of the hours
\* topic has been classified, in a session with the intent reservation
C31_Witness ==
    /\ pc[ParseThread] = "detected"
    /\ loc[ParseThread].speech_result = "what time can I book"
    /\ TopicsIn(loc[ParseThread].speech_result) = {1, 2}
    /\ calls[ParseCall].intent = "reservation"
    /\ loc[ParseThread].intent = "reservation"

\* the text is made of digits, and of colons when colons are allowed
BareDigits(text, colons) ==
    /\ has_digit(text)
    /\ \A i \in 1..Len(text) : Ch(text, i) \in DigitChars \/ (colons /\ Ch(text, i) = ":")

\* the slot the session is asking for: the first unset one, in phase gathering
Requested(cs, field) ==
    /\ cs.intent = "reservation"
    /\ cs.call_phase = "gathering"
    /\ \E i \in 1..Len(Slots) :
          /\ Slots[i] = field
          /\ cs.extracted_info[field] = None
          /\ \A j \in 1..(i - 1) : cs.extracted_info[Slots[j]] # None

\* C32: in a reservation conversation in phase gathering, an utterance of
\* bare digits ("7", "7:30") is classified providing_time when the first
\* unset slot is time, and an utterance of digits is classified
\* providing_phone, not providing_party_size, when the first unset slot is
\* phone.
C32_DigitsGoToTheRequestedSlot ==
    pc[ParseThread] = "detected" =>
        /\ (/\ Requested(calls[ParseCall], "time")
            /\ BareDigits(loc[ParseThread].speech_result, TRUE))
              => loc[ParseThread].intent = "providing_time"
        /\ (/\ Requested(calls[ParseCall], "phone")
            /\ BareDigits(loc[ParseThread].speech_result, FALSE))
              => loc[ParseThread].intent = "providing_phone"

\* the audio route has handled a transcription
Streamed(t) == "call_state" \in DOMAIN loc[t]

\* C33: all event handlers work on one registry: for a call id created by
\* incoming_call, update_call_with_transcription issued from the audio-stream
\* route finds the session and does not return absent.
C33_StreamFindsTheSession ==
    (Streamed(StreamThread) /\ loc[StreamThread].created)
        => loc[StreamThread].call_state # << >>

\* the reservation of call c was completed through the step-by-step flow
\* (name, date and time collected) and its save succeeded
SavedByStepFlow(c) ==
    /\ c \in DOMAIN calls
    /\ calls[c].reservation_session # << >>
    /\ calls[c].reservation_session[1].step = 4
    /\ \A k \in {"name", "date", "time"} : calls[c].reservation_session[1][k] # None
    /\ reservations[c] >= 1

\* the call ids get_early_disconnection_stats lists
EarlyDisconnectedCalls(cm) ==
    {get_early_disconnection_stats(cm).early_disconnected_calls[i] :
        i \in 1..get_early_disconnection_stats(cm).total_early_disconnections}

\* C34: a call whose reservation was completed and saved through the
\* step-by-step flow is not classified early_disconnected when its call-ended
\* event arrives, and get_early_disconnection_stats does not count it.
C34_SavedCallIsNotEarlyDisconnected ==
    [][\A c \in SpecCallIds, d \in Durations :
          ( /\ SavedByStepFlow(c)
            /\ calls[c].status = "active"
            /\ UpdateCallStatus(c, "completed", d) )
          => /\ calls'[c].status # "early_disconnected"
             /\ c \notin EarlyDisconnectedCalls(calls')]_vars

\* the reservation_session of call c, when gather_input has made one
HasFlow(c) == c \in DOMAIN calls /\ calls[c].reservation_session # << >>

\* the field process_customer_response collects at each step
StepField == <<"name", "date", "time">>

\* what one call of process_customer_response on session sd returns
CallMovesOneStep(sd, r, db_ok) ==
    IF sd.step \in 1..3
    THEN /\ r.session.step = sd.step + 1
         /\ r.session[StepField[sd.step]] # None
         /\ \A k \in {"name", "date", "time"} \ {StepField[sd.step]} :
               r.session[k] = sd[k]
         /\ r.is_complete <=> (sd.step = 3 /\ db_ok)
         /\ r.saved = IF sd.step = 3 THEN 1 ELSE 0
    ELSE /\ r.session = sd
         /\ ~r.is_complete
         /\ r.saved = 0

\* every call on the session of c, whatever the answer and the outcome of
\* the save
EveryCallMovesOneStep(c) ==
    \A u \in ParseTexts \ {""}, db_ok \in BOOLEAN :
        CallMovesOneStep(calls[c].reservation_session[1],
                         process_customer_response(calls[c].reservation_session[1],
                                                   u, db_ok),
                         db_ok)

FieldsOfPassedSteps(sd) ==
    /\ sd.step \in 1..4
    /\ sd.step >= 2 => sd.name # None
    /\ sd.step >= 3 => sd.date # None
    /\ sd.step = 4 => sd.time # None

\* C35: process_customer_response moves the step 1, 2, 3, 4 by exactly one
\* per call while the step is at most 3; the call at step 1 sets only name,
\* at step 2 only date, at step 3 only time; a call at step 4 changes
\* nothing and returns is_complete false; is_complete is true only for the
\* call at step 3 whose save succeeded; the step never goes back, and in
\* every reachable state step >= 2 implies name is set, step >= 3 implies
\* date is set and step = 4 implies time is set.
C35_StepFlowMovesForward ==
    /\ [](\A c \in SpecCallIds :
             HasFlow(c) => /\ EveryCallMovesOneStep(c)
                           /\ FieldsOfPassedSteps(calls[c].reservation_session[1]))
    /\ [][\A c \in SpecCallIds :
             HasFlow(c) =>
                 /\ calls'[c].reservation_session[1].step
                        >= calls[c].reservation_session[1].step
                 /\ reservations'[c] > reservations[c]
                        => /\ calls[c].reservation_session[1].step = 3
                           /\ calls'[c].reservation_session[1].step = 4]_vars

\* the flow has taken the name, the date and the time, and the save of the
\* third answer succeeded
C35_Witness ==
    /\ HasFlow("CA1")
    /\ calls["CA1"].reservation_session[1].step = 4
    /\ calls["CA1"].reservation_session[1].name = "Kim"
    /\ calls["CA1"].reservation_session[1].time # None
    /\ reservations["CA1"] = 1

\* the conversation history of call c, empty while the registry has no session
History(cm, c) == IF c \in DOMAIN cm THEN cm[c].conversation_history ELSE << >>

IsPrefix(old, new) == Len(old) <= Len(new) /\ SubSeq(new, 1, Len(old)) = old

\* C36: every non-empty utterance handled by the gather handler appends
\* exactly one turn to the conversation history of the session, for a
\* reservation request, for an answer of the step-by-step flow and for a
\* general inquiry alike, and no handler removes or reorders the turns that
\* are there.
C36_EveryUtteranceAppendsATurn ==
    [][\A c \in SpecCallIds :
          /\ IsPrefix(History(calls, c), History(calls', c))
          /\ \A u \in Utterances \ {""}, db_ok \in BOOLEAN :
                GatherInput(c, u, db_ok)
                    => Len(History(calls', c)) = Len(History(calls, c)) + 1]_vars

\* session a is session b but for the time of its last update
SameButLastUpdate(a, b) == [a EXCEPT !.last_update = 0] = [b EXCEPT !.last_update = 0]

\* C37: after a rejection in confirming, when no slot is changed, the next
\* generate_next_response, on the session now in gathering, puts the
\* session back in confirming with the same slot values; the session is
\* then the one it was before the rejection, so the cycle confirming,
\* gathering, confirming repeats without bound and nothing counts it.
C37_RejectionLoopsBackToConfirming ==
    [][\A c \in SpecCallIds :
          /\ \A d \in Digits \ {"1"} :
                ( /\ Known(c)
                  /\ calls[c].call_phase = "confirming"
                  /\ ProcessConfirmation(c, d) )
                => /\ calls'[c].call_phase = "gathering"
                   /\ calls'[c].extracted_info = calls[c].extracted_info
                   /\ generate_next_response(calls'[c])[1].call_phase = "confirming"
                   /\ calls[c].confirmation_pending
                         => SameButLastUpdate(generate_next_response(calls'[c])[1],
                                              calls[c])
          /\ ( /\ Known(c)
               /\ calls[c].call_phase = "gathering"
               /\ has_complete_info(calls[c])
               /\ GenerateNextResponse(c) )
             => /\ calls'[c].call_phase = "confirming"
                /\ calls'[c].extracted_info = calls[c].extracted_info]_vars

\* a session with its six slots set is back in gathering, as a rejection in
\* confirming leaves it
C37_Witness ==
    /\ "CA1" \in DOMAIN calls
    /\ calls["CA1"].call_phase = "gathering"
    /\ ~calls["CA1"].confirmation_pending
    /\ has_complete_info(calls["CA1"])
    /\ calls["CA1"].status = "active"

\* what gather_input answers to utterance u of call c in the current state
GatherReply(c, u, db_ok) == gather_input(initialize_call(calls, c, None)[c], u, db_ok)

\* C38: in the step-by-step flow a hangup with the message that the
\* reservation has been confirmed is sent for a call only when a save of the
\* reservation of that call has succeeded; after a failed save no later
\* utterance, one with a reservation keyword included, is answered with the
\* confirmed message.
C38_ConfirmedOnlyAfterASave ==
    \A c \in SpecCallIds, u \in Utterances \ {""}, db_ok \in BOOLEAN :
        ( /\ GatherReply(c, u, db_ok).directive = "hangup"
          /\ GatherReply(c, u, db_ok).prompt = "confirmed" )
        => reservations[c] + (IF db_ok THEN GatherReply(c, u, db_ok).saved ELSE 0) >= 1

\* thread t holds the lock exactly while it is inside a with-block
LockDiscipline(t) ==
    /\ pc[t] \in {"idle", "l_wait"} => lock # t
    /\ pc[t] \in {"l_body", "l_collaborator", "l_release"} => lock = t

\* a thread inside a method, or one the lock is free for, can take a step
SomeThreadCanRun ==
    \E t \in Threads :
        ENABLED (LockAcquire(t) \/ LockBody(t) \/ LockCollaborator(t) \/ LockRelease(t))

C40_PendingFollowsThePhase ==
    \A c \in DOMAIN calls :
        /\ calls[c].call_phase = "confirming"
              => /\ \A k \in SlotNames : calls[c].extracted_info[k] # None
                 /\ calls[c].confirmation_pending
        /\ calls[c].call_phase \in {"gathering", "greeting"}
              => ~calls[c].confirmation_pending

\* generate_next_response has moved a session that heard a transcription to
\* confirming, and a call-failed event has been recorded on it since
C40_Witness ==
    /\ "CA1" \in DOMAIN calls
    /\ calls["CA1"].call_phase = "confirming"
    /\ calls["CA1"].confirmation_pending
    /\ calls["CA1"].status = "failed"
    /\ calls["CA1"].transcription_history # << >>

====
